---------------------------- MODULE Spec2Model ----------------------------
(***************************************************************************)
(* A model of two-eight.py: the Input router (bindings, delegation chain,  *)
(* modal capture), the capture flow of ActivityTablePad.edit on the root   *)
(* Input, the hysteresis scrolling of VertScrollPad, and the layout of     *)
(* Pad and Frame.                                                          *)
(*                                                                         *)
(* Six specifications share the module.                                    *)
(*   Spec          class Input driven by arbitrary install / on_key /      *)
(*                 process calls on two Inputs and a delegation chain.     *)
(*   SpecInstall   class Input under install with either of two            *)
(*                 controllers, and process.                               *)
(*   SpecApp       the application: TwoEight's root Input, the WeekTab     *)
(*                 Input behind it and the nested blocking loops that      *)
(*                 ActivityTablePad.edit runs on the root Input.           *)
(*   SpecScroll    one VertScrollPad under scroll, resize and content-     *)
(*                 height changes.                                         *)
(*   SpecScrollTo  one VertScrollPad under sequences of scroll calls.      *)
(*   SpecLayout    trees of Pads and Frames under RootFrame.resize_term.   *)
(* Each specification leaves the variables of the others at their idle     *)
(* values.                                                                 *)
(***************************************************************************)
EXTENDS Integers, Sequences, FiniteSets, TLC

VARIABLES
    inp,        \* the Input objects: id -> controls, controller, fallback, c, ...
    ev,         \* what the last operation did: handler calls, offers, warnings
    op,         \* the last operation made on an Input
    newest,     \* history: key -> the handler of the latest registration of it
    stack,      \* the running activations of ActivityTablePad.edit, outermost first
    week,       \* WeekData: the Activity objects and the activities list
    apad,       \* ActivityTablePad: activities_names, cursor, height, color_index, ...
    run,        \* whether the program runs, unwinds an exception or has ended
    lastExit,   \* history: the capture the last step exited, as it was entered
    vpad,       \* the VertScrollPad: height, clipheight, scrollpos, scroll_variable
    vop,        \* the last operation made on vpad, and scrollpos before it
    tree,       \* the Pad and Frame objects: id -> class attributes and geometry
    lop         \* the last layout pass: terminal size and the pads refresh drew

inputVars == <<inp, ev, op, newest>>
appVars == <<stack, week, apad, run, lastExit>>
scrollVars == <<vpad, vop>>
layoutVars == <<tree, lop>>

vars == <<inputVars, appVars, scrollVars, layoutVars>>

Max(a, b) == IF a >= b THEN a ELSE b
Min(a, b) == IF a <= b THEN a ELSE b

(***************************************************************************)
(* Optional values: None, or a value wrapped in a one-element tuple.       *)
(***************************************************************************)
None == <<>>
Some(x) == <<x>>
IsNone(o) == o = <<>>
Val(o) == o[1]

(***************************************************************************)
(* class Input                                                             *)
(***************************************************************************)

\* Key codes. The wildcard "*" and the Input object that on_any passes to
\* on_key as a key are not integers in the program; here they are two codes
\* no terminal key has.
STAR == -1
SELFKEY == -2
KEY_w == 119
KEY_W == 87

\* Longest delegation chain installed.
MaxChain == 2

\* A handler: the function and, for a closure made inside a prompt, the
\* edit() activation that made it.
Handler(fn, frame) == [fn |-> fn, frame |-> frame]
NoHandler == Handler("none", 0)

\* One entry of ev.
Event(type, input, obj, h, key) ==
    [type |-> type, input |-> input, obj |-> obj, h |-> h, key |-> key]

\* self.c after on_key(*args), after process(c), and before either.
ArgsC(keys) == [kind |-> "args", v |-> keys]
KeyC(c) == [kind |-> "key", v |-> <<c>>]
UnsetC == [kind |-> "unset", v |-> <<>>]

\* Input.__init__. The two store attributes do not exist before the first
\* __enter__; they are None here, as after __exit__.
NewInput ==
    [controls |-> Some(<<>>), controller |-> "None", fallback |-> Some(<<>>),
     screen |-> "unset", c |-> UnsetC,
     fallback_store |-> None, controls_store |-> None]

\* The input attribute of the objects that appear in delegation chains:
\* an Input, None (Pad.input), or no such attribute at all.
NodeInput ==
    [n \in {"NA", "NB", "NNone", "NObj", "tab"} |->
        CASE n = "NA" -> "I2"
          [] n = "NB" -> "I3"
          [] n = "NNone" -> "None"
          [] n = "NObj" -> "NoAttr"
          [] n = "tab" -> "tabInput"]

\* A plausible slip: install replaces the chain and the screen only.
InstallChainOnly(I, i, controller, fallback, screen) ==
    [I EXCEPT ![i].fallback = Some(fallback),
              ![i].screen = screen]

\* Input.install
install(I, i, controller, fallback, screen) ==
    [I EXCEPT ![i].controller = controller,
              ![i].fallback = Some(fallback),
              ![i].screen = screen]

\* A plausible slip: the wildcard is looked up before the key itself.
ResolveWildcardFirst(ctl, c) ==
    IF STAR \in DOMAIN ctl THEN "any"
    ELSE IF c \in DOMAIN ctl THEN "key" ELSE "fallback"

\* A plausible slip: the wildcard is never looked up.
ResolveNoWildcard(ctl, c) ==
    IF c \in DOMAIN ctl THEN "key" ELSE "fallback"

\* Which of the three branches of process a key takes.
Resolve(ctl, c) ==
    IF c \notin DOMAIN ctl
      THEN IF STAR \in DOMAIN ctl THEN "any" ELSE "fallback"
      ELSE "key"

\* A plausible slip: process does not look at the controller.
ControllerUnchecked(I, i) == FALSE

\* if self.controller is None
NoController(I, i) == I[i].controller = "None"

\* Input.process and its loop over self.fallback. The result is the Inputs
\* afterwards (self.c of every Input reached), the events in order and the
\* exception that left process, if any. A handler call is an event; what the
\* handler does is the caller's part.
RECURSIVE process(_, _, _), walk(_, _, _, _)

process(I, i, c) ==
    IF NoController(I, i)
      THEN [inp |-> I, exc |-> "none",
            ev |-> <<Event("warn_nocontroller", i, "None", NoHandler, c)>>]
      ELSE
        LET J == [I EXCEPT ![i].c = KeyC(c)] IN
        IF IsNone(J[i].controls)
          THEN [inp |-> J, exc |-> "TypeError", ev |-> <<>>]
          ELSE
            LET ctl == Val(J[i].controls)
                how == Resolve(ctl, c)
            IN  CASE how = "key" ->
                       [inp |-> J, exc |-> "none",
                        ev |-> <<Event("call", i, J[i].controller, ctl[c], c)>>]
                  [] how = "any" ->
                       [inp |-> J, exc |-> "none",
                        ev |-> <<Event("call", i, J[i].controller, ctl[STAR], c)>>]
                  [] how = "fallback" ->
                       IF IsNone(J[i].fallback)
                         THEN [inp |-> J, exc |-> "TypeError", ev |-> <<>>]
                         ELSE walk(J, i, Val(J[i].fallback), c)

walk(I, i, chain, c) ==
    IF chain = <<>>
      THEN [inp |-> I, exc |-> "none", ev |-> <<>>]
      ELSE
        LET e == Head(chain) IN
        IF NodeInput[e] = "NoAttr"
          THEN LET rest == walk(I, i, Tail(chain), c)
               IN  [rest EXCEPT !.ev =
                       <<Event("warn_noinput", i, e, NoHandler, c)>> \o rest.ev]
          ELSE IF NodeInput[e] = "None"
            THEN [inp |-> I, exc |-> "AttributeError", ev |-> <<>>]
            ELSE
              LET offer == Event("offer", i, e, NoHandler, c)
                  r == process(I, NodeInput[e], c)
              IN  IF r.exc # "none"
                    THEN [r EXCEPT !.ev = <<offer>> \o r.ev]
                    ELSE LET rest == walk(r.inp, i, Tail(chain), c)
                         IN  [rest EXCEPT !.ev = <<offer>> \o r.ev \o rest.ev]

\* A plausible slip: a key that is already bound keeps its first handler.
BindKeepFirst(ctl, c, func) ==
    IF c \in DOMAIN ctl THEN ctl
    ELSE [k \in DOMAIN ctl \cup {c} |-> IF k = c THEN func ELSE ctl[k]]

\* self.controls[c] = func
Bind(ctl, c, func) ==
    [k \in DOMAIN ctl \cup {c} |-> IF k = c THEN func ELSE ctl[k]]

\* Input.__call__: the loop over the keys on_key stored. The result is the
\* binding table and the warnings.
RECURSIVE call_loop(_, _, _, _)
call_loop(i, ctl, keys, func) ==
    IF keys = <<>>
      THEN [controls |-> ctl, ev |-> <<>>]
      ELSE
        LET c == Head(keys)
            w == IF c \in DOMAIN ctl
                   THEN <<Event("warn_rebind", i, "None", ctl[c], c)>>
                   ELSE <<>>
            rest == call_loop(i, Bind(ctl, c, func), Tail(keys), func)
        IN  [rest EXCEPT !.ev = w \o rest.ev]

\* @input.on_key(*keys) above a function: on_key stores the keys in self.c,
\* __call__ binds them. The result is the Inputs and the warnings.
on_key(I, i, keys, func) ==
    LET r == call_loop(i, Val(I[i].controls), keys, func)
    IN  [inp |-> [I EXCEPT ![i].c = ArgsC(keys), ![i].controls = Some(r.controls)],
         ev |-> r.ev]

\* @input.on_any(): on_key(self, "*")
on_any(I, i, func) == on_key(I, i, <<SELFKEY, STAR>>, func)

(***************************************************************************)
(* Spec: one Input under arbitrary calls. I1 is the Input under test; the  *)
(* chain entries NA and NB own the Inputs I2 and I3, which spawn installed *)
(* with their node as controller (I2 with or without a binding of its own, *)
(* I3 with none, like ActivityTablePad.input); NNone is a pad whose input  *)
(* is None and NObj an object without an input attribute.                  *)
(***************************************************************************)

Entries == {"NA", "NB", "NNone", "NObj"}
Keys == {KEY_w, KEY_W}
KeyTuples == {<<KEY_w>>, <<KEY_w, KEY_W>>, <<KEY_w, KEY_w>>}

\* The chains install is given: up to MaxChain distinct entries in any order.
Chains ==
    {ch \in UNION {[1..n -> Entries] : n \in 0..MaxChain} :
        \A a, b \in DOMAIN ch : a # b => ch[a] # ch[b]}

\* An Input a pad class declares, after spawn has installed it: with its
\* own binding of w, or with none.
PadInput(node, bound) ==
    LET fresh == [NewInput EXCEPT !.controller = node, !.screen = "None"]
    IN  IF bound
          THEN [fresh EXCEPT !.controls = Some(Bind(<<>>, KEY_w, Handler("h3", 0))),
                             !.c = ArgsC(<<KEY_w>>)]
          ELSE fresh

\* depth: how many edit() activations ran when a key was read.
IdleOp ==
    [kind |-> "none", keys |-> <<>>, h |-> NoHandler, depth |-> 0,
     controller |-> "None", chain |-> <<>>]

\* The variables of the application, in the specifications without it.
IdleApp ==
    /\ stack = <<>> /\ week = <<>> /\ apad = <<>> /\ run = <<>> /\ lastExit = <<>>

\* The variables of the layout, in the specifications without it.
IdleLayout ==
    /\ tree = <<>> /\ lop = <<>>

Init ==
    /\ \E b2 \in BOOLEAN :
         inp = [i \in {"I1", "I2", "I3"} |->
                  CASE i = "I1" -> NewInput
                    [] i = "I2" -> PadInput("NA", b2)
                    [] i = "I3" -> PadInput("NB", FALSE)]
    /\ ev = <<>>
    /\ op = IdleOp
    /\ newest = <<>>
    /\ IdleApp
    /\ vpad = <<>>
    /\ vop = <<>>
    /\ IdleLayout

Install(chain) ==
    /\ inp' = install(inp, "I1", "ctl", chain, "None")
    /\ ev' = <<>>
    /\ op' = [IdleOp EXCEPT !.kind = "install", !.controller = "ctl",
                            !.chain = chain]
    /\ UNCHANGED <<newest, appVars, scrollVars, layoutVars>>

\* The history of registrations: every key of the tuple now has func.
RECURSIVE Latest(_, _, _)
Latest(hist, keys, func) ==
    IF keys = <<>> THEN hist
    ELSE Latest([k \in DOMAIN hist \cup {Head(keys)} |->
                    IF k = Head(keys) THEN func ELSE hist[k]], Tail(keys), func)

Register(keys, func) ==
    LET r == on_key(inp, "I1", keys, func)
    IN  /\ inp' = r.inp
        /\ ev' = r.ev
        /\ op' = [IdleOp EXCEPT !.kind = "register", !.keys = keys, !.h = func]
        /\ newest' = Latest(newest, keys, func)
        /\ UNCHANGED <<appVars, scrollVars, layoutVars>>

RegisterAny(func) ==
    LET r == on_any(inp, "I1", func)
    IN  /\ inp' = r.inp
        /\ ev' = r.ev
        /\ op' = [IdleOp EXCEPT !.kind = "register", !.keys = <<SELFKEY, STAR>>,
                                !.h = func]
        /\ newest' = Latest(newest, <<SELFKEY, STAR>>, func)
        /\ UNCHANGED <<appVars, scrollVars, layoutVars>>

\* process(c) on I1. The handlers of this specification only return.
Process(c) ==
    LET r == process(inp, "I1", c)
    IN  /\ inp' = r.inp
        /\ ev' = IF r.exc = "none" THEN r.ev
                 ELSE r.ev \o <<Event("raise", "I1", r.exc, NoHandler, c)>>
        /\ op' = [IdleOp EXCEPT !.kind = "process", !.keys = <<c>>]
        /\ UNCHANGED <<newest, appVars, scrollVars, layoutVars>>

Next ==
    \/ \E chain \in Chains : Install(chain)
    \/ \E keys \in KeyTuples, fn \in {"h1", "h2"} : Register(keys, Handler(fn, 0))
    \/ \E fn \in {"h1", "h2"} : RegisterAny(Handler(fn, 0))
    \/ \E c \in Keys : Process(c)

Spec == Init /\ [][Next]_vars

Range(f) == {f[x] : x \in DOMAIN f}

\* The chain entries I1 offered the key to, in order.
Offered(events) ==
    SelectSeq(events, LAMBDA e : e.type = "offer" /\ e.input = "I1")

\* C1: with a controller installed, process(k) for a bound key invokes the
\* handler bound to k, once, with the controller as argument, and nothing
\* else: not the wildcard handler, and no chain entry is offered k.
C1_BoundKeyOnly ==
    [][\A k \in Keys :
          (/\ op'.kind = "process" /\ op'.keys = <<k>>
           /\ inp["I1"].controller # "None"
           /\ k \in DOMAIN Val(inp["I1"].controls))
          => ev' = <<Event("call", "I1", inp["I1"].controller,
                           Val(inp["I1"].controls)[k], k)>>]_vars

\* A bound key was processed while a wildcard with another handler was bound
\* and the chain held an entry with a router.
C1_Witness ==
    /\ op.kind = "process"
    /\ Len(ev) = 1 /\ ev[1].type = "call"
    /\ ev[1].key \in DOMAIN Val(inp["I1"].controls)
    /\ STAR \in DOMAIN Val(inp["I1"].controls)
    /\ Val(inp["I1"].controls)[STAR] # ev[1].h
    /\ "NA" \in Range(Val(inp["I1"].fallback))

\* C2: with a controller installed, process(k) for a key that is not bound,
\* with no wildcard bound, offers k to at most one chain entry: the first one
\* that has a router, and to none declared after it.
C2_FirstRouterOnly ==
    (/\ op.kind = "process"
     /\ inp["I1"].controller # "None"
     /\ Resolve(Val(inp["I1"].controls), op.keys[1]) = "fallback")
    => Len(Offered(ev)) <= 1

\* C18: process(k) on an Input without a controller records one warning and
\* drops k: no handler is invoked, no chain entry is offered k, and the
\* bindings, the chain and the last-key field of the Input are unchanged.
C18_NoControllerDrops ==
    [][(op'.kind = "process" /\ inp["I1"].controller = "None")
        => /\ ev' = <<Event("warn_nocontroller", "I1", "None", NoHandler,
                            op'.keys[1])>>
           /\ inp' = inp]_vars

\* A key that is bound, with the wildcard bound too, was processed by an
\* Input that has no controller.
C18_Witness ==
    /\ op.kind = "process"
    /\ inp["I1"].controller = "None"
    /\ op.keys[1] \in DOMAIN Val(inp["I1"].controls)
    /\ STAR \in DOMAIN Val(inp["I1"].controls)
    /\ Len(ev) = 1 /\ ev[1].type = "warn_nocontroller"

\* The entries of a chain that lack a router: no input attribute, or an
\* input attribute that is None.
Routerless(chain) ==
    {n \in DOMAIN chain : NodeInput[chain[n]] \in {"NoAttr", "None"}}

\* C19: process(k) for an unbound key, with no wildcard bound, whose chain
\* has entries that lack a router does not raise, and records a warning for
\* each such entry.
C19_MissingRouterNonFatal ==
    (/\ op.kind = "process"
     /\ inp["I1"].controller # "None"
     /\ Resolve(Val(inp["I1"].controls), op.keys[1]) = "fallback")
    => LET chain == Val(inp["I1"].fallback) IN
       /\ \A n \in DOMAIN ev : ev[n].type # "raise"
       /\ \A n \in Routerless(chain) :
             \E m \in DOMAIN ev :
                ev[m].type = "warn_noinput" /\ ev[m].obj = chain[n]

\* The keys __call__ warns about: those bound before, or earlier in the tuple.
RECURSIVE WarnKeys(_, _)
WarnKeys(bound, keys) ==
    IF keys = <<>> THEN <<>>
    ELSE (IF Head(keys) \in bound THEN <<Head(keys)>> ELSE <<>>)
            \o WarnKeys(bound \cup {Head(keys)}, Tail(keys))

\* C7: a registration binds every key of its tuple to the new handler and
\* leaves the other bindings alone; it records one warning for each key that
\* was already bound and none for a key that was not; and process of a key
\* invokes only the handler of the latest registration of that key.
C7_RebindWarnsOnce ==
    [][/\ op'.kind = "register" =>
            LET pre == Val(inp["I1"].controls)
                post == Val(inp'["I1"].controls)
            IN  /\ DOMAIN post = DOMAIN pre \cup Range(op'.keys)
                /\ \A k \in DOMAIN post :
                      post[k] = IF k \in Range(op'.keys) THEN op'.h ELSE pre[k]
                /\ \A n \in DOMAIN ev' : ev'[n].type = "warn_rebind"
                /\ [n \in DOMAIN ev' |-> ev'[n].key] = WarnKeys(DOMAIN pre, op'.keys)
       /\ \A k \in Keys :
            (/\ op'.kind = "process" /\ op'.keys = <<k>>
             /\ inp["I1"].controller # "None"
             /\ k \in DOMAIN newest)
            => ev' = <<Event("call", "I1", inp["I1"].controller, newest[k], k)>>]_vars

\* w was bound to h1 and has just been registered again together with W,
\* which was not bound: one warning, for w.
C7_Witness ==
    /\ op.kind = "register"
    /\ op.keys = <<KEY_w, KEY_W>>
    /\ op.h.fn = "h2"
    /\ Len(ev) = 1 /\ ev[1].key = KEY_w /\ ev[1].h.fn = "h1"

(***************************************************************************)
(* The application: TwoEight, WeekTab, ActivityTablePad, WeekData          *)
(***************************************************************************)

\* Key codes: curses.KEY_RESIZE, tab, Ctrl+C, curses.KEY_ENTER, new line,
\* carriage return, curses.KEY_BACKSPACE, "\b", and the letters and the
\* digit the bindings name.
KEY_RESIZE == 410
KEY_TAB == 9
KEY_CTRL_C == 3
KEY_ENTER == 343
KEY_NL == 10
KEY_CR == 13
KEY_BACKSPACE == 263
KEY_BS == 8
KEY_o == 111
KEY_k == 107
KEY_0 == 48
KEY_1 == 49
KEY_7 == 55
KEY_s == 115
KEY_S == 83
KEY_a == 97
KEY_A == 65
KEY_d == 100
KEY_D == 68
KEY_q == 113
KEY_e == 101
KEY_u == 117

\* Calls of edit() in a run; they may all nest.
MaxEdits == 3
\* Typing is followed while the entry text is shorter than this.
MaxName == 1
\* Activities of the dummy week (the program makes 10).
NrActivities == 1
\* Time segments of the dummy week (the program makes 48).
WeekSegments == 1
\* The days of a week: the columns of the timetable.
NrDays == 7

Root == "rootInput"

\* The keys read from the terminal.
AppKeys == {KEY_RESIZE, KEY_TAB, KEY_CTRL_C, KEY_NL, KEY_o, KEY_k}

\* The handlers whose bodies are followed; AppKeys reaches no other.
AppHandlers ==
    {"resize_term", "switch_tab", "exit", "activitytable_down",
     "activitytable_edit", "confirm_name", "type_char", "confirm_colors",
     "type_digit", "assign", "activitytable_delete"}

\* The closures a prompt registers.
CaptureHandlers ==
    {"confirm_name", "backspace", "type_char", "confirm_colors", "type_digit"}

\* A class body's decorated functions, bound in order.
RECURSIVE Declare(_, _, _)
Declare(I, i, decls) ==
    IF decls = <<>> THEN I
    ELSE Declare(on_key(I, i, Head(decls)[1], Handler(Head(decls)[2], 0)).inp,
                 i, Tail(decls))

\* RootFrame.input with the bindings of RootFrame and TwoEight, installed
\* by TwoEight.spawner.
RootDecls ==
    << <<<<KEY_RESIZE>>, "resize_term">>,
       <<<<KEY_TAB>>, "switch_tab">>,
       <<<<KEY_CTRL_C>>, "exit">> >>

\* WeekTab.input with the bindings of WeekTab, installed by spawn.
TabDecls ==
    << <<<<KEY_w, KEY_W>>, "timetable_up">>,
       <<<<KEY_s, KEY_S>>, "timetable_down">>,
       <<<<KEY_a, KEY_A>>, "timetable_left">>,
       <<<<KEY_d, KEY_D>>, "timetable_right">>,
       <<<<KEY_q, KEY_e>>, "assign">>,
       <<<<105>>, "activitytable_up">>,
       <<<<KEY_k>>, "activitytable_down">>,
       <<<<KEY_u>>, "activitytable_delete">>,
       <<<<KEY_o>>, "activitytable_edit">> >>

AppInputs ==
    LET fresh == [i \in {Root, "tabInput", "actInput"} |-> NewInput]
        decl == Declare(Declare(fresh, Root, RootDecls), "tabInput", TabDecls)
        tab == install(decl, "tabInput", "tab", <<>>, "None")
        act == install(tab, "actInput", "activitytable", <<>>, "None")
    IN  install(act, Root, "twoeight", <<"tab">>, "stdscr")

\* A plausible slip: __enter__ clears the chain before it saves it.
EnterClearFirst(I, i) ==
    [I EXCEPT ![i].fallback_store = Some(<<>>),
              ![i].controls_store = I[i].controls,
              ![i].fallback = Some(<<>>)]

\* Input.__enter__, for controls that are not None.
Enter(I, i) ==
    [I EXCEPT ![i].fallback_store = I[i].fallback,
              ![i].controls_store = I[i].controls,
              ![i].fallback = Some(<<>>)]

\* Input.__exit__
Exit(I, i) ==
    [I EXCEPT ![i].fallback = I[i].fallback_store,
              ![i].controls = I[i].controls_store,
              ![i].fallback_store = None,
              ![i].controls_store = None]

\* Text is a sequence of character codes. f"{n:03d}" for 0 <= n <= 999.
Fmt03d(n) == <<48 + (n \div 100), 48 + ((n \div 10) % 10), 48 + (n % 10)>>

\* f"R {colors_str[0]} | G {colors_str[1]} | B {colors_str[2]}"
ColorsText(cs) ==
    <<82, 32>> \o cs[1] \o <<32, 124, 32, 71, 32>> \o cs[2]
        \o <<32, 124, 32, 66, 32>> \o cs[3]

\* int() of a text of three digits.
Int3(s) == (s[1] - KEY_0) * 100 + (s[2] - KEY_0) * 10 + (s[3] - KEY_0)

\* s[:n] + chr(c) + s[n + 1:]
PutChar(s, n, c) ==
    SubSeq(s, 1, Min(n, Len(s))) \o <<c>> \o SubSeq(s, n + 2, Len(s))

\* A value of randrange(0, 1000) in Activity.dummy.
DummyColor == 500

\* "dummy" + str(i)
DummyName(i) == <<100, 117, 109, 109, 121, 48 + i>>

\* a < b for strings
RECURSIVE StrLess(_, _)
StrLess(a, b) ==
    IF b = <<>> THEN FALSE
    ELSE IF a = <<>> THEN TRUE
    ELSE IF Head(a) # Head(b) THEN Head(a) < Head(b)
    ELSE StrLess(Tail(a), Tail(b))

\* sorted(activities, key=lambda x: x.name): stable, so an element goes
\* behind those sorted before it whose name is not greater.
RECURSIVE InsertSorted(_, _, _), sorted(_, _)
InsertSorted(objs, s, x) ==
    IF s = <<>> THEN <<x>>
    ELSE IF StrLess(objs[x].name, objs[Head(s)].name) THEN <<x>> \o s
    ELSE <<Head(s)>> \o InsertSorted(objs, Tail(s), x)

sorted(objs, s) ==
    IF s = <<>> THEN <<>>
    ELSE InsertSorted(objs, sorted(objs, SubSeq(s, 1, Len(s) - 1)), s[Len(s)])

\* list.index, counted from 0; -1 stands for ValueError.
IndexOf(s, x) ==
    IF \E n \in DOMAIN s : s[n] = x
      THEN (CHOOSE n \in DOMAIN s : s[n] = x /\ \A m \in 1..(n - 1) : s[m] # x) - 1
      ELSE -1

\* The state a handler works on, and the exception it raises, if any.
Raise(W, e) == [W EXCEPT !.exc = e]

\* ActivityTablePad.cursor_activity; the cursor counts from 0.
cursor_activity(W) ==
    IF W.pad.cursor < Len(W.pad.names)
      THEN IF W.pad.cursor < Len(W.week.acts)
             THEN [exc |-> "none", v |-> Some(W.week.acts[W.pad.cursor + 1])]
             ELSE [exc |-> "IndexError", v |-> None]
      ELSE [exc |-> "none", v |-> None]

\* ActivityTablePad.copy_activities
copy_activities(W) ==
    [W EXCEPT !.pad.names =
        [n \in 1..Len(W.week.acts) |-> W.week.objs[W.week.acts[n]].name]]

\* ActivityTablePad.draw_activities: the height follows the list.
draw_activities(W) ==
    [W EXCEPT !.pad.height = Len(W.pad.names) + 1]

\* ActivityTablePad.select
ActivityTablePad_select(W, d) ==
    [W EXCEPT !.pad.cursor = (W.pad.cursor + d) % W.pad.height]

\* The decorated closures of prompt_name and of prompt_colors.
NameDecls ==
    << <<<<KEY_ENTER, KEY_NL, KEY_CR>>, "confirm_name">>,
       <<<<KEY_BACKSPACE, KEY_BS>>, "backspace">>,
       <<<<SELFKEY, STAR>>, "type_char">> >>

ColorsDecls ==
    << <<<<KEY_ENTER, KEY_NL, KEY_CR>>, "confirm_colors">>,
       <<[n \in 1..10 |-> KEY_0 + n - 1], "type_digit">> >>

\* The closures of activation d, registered in order.
RECURSIVE RegisterAll(_, _, _, _)
RegisterAll(I, i, decls, d) ==
    IF decls = <<>> THEN [inp |-> I, ev |-> <<>>]
    ELSE LET r == on_key(I, i, Head(decls)[1], Handler(Head(decls)[2], d))
             rest == RegisterAll(r.inp, i, Tail(decls), d)
         IN  [rest EXCEPT !.ev = r.ev \o rest.ev]

\* History: the captures that are running get a capture started inside them.
MarkNested(stk) ==
    [n \in DOMAIN stk |->
        IF stk[n].pc = "loop" THEN [stk[n] EXCEPT !.nested = TRUE] ELSE stk[n]]

\* "with self.root().input as seizedinput:" up to start_loop, which then
\* blocks in getch. __enter__ raises at self.controls.copy() when controls
\* is None, after it has assigned fallback_store.
capture(W, d, decls) ==
    IF IsNone(W.inp[Root].controls)
      THEN Raise([W EXCEPT !.inp[Root].fallback_store = W.inp[Root].fallback],
                 "AttributeError")
      ELSE LET r == RegisterAll(Enter(W.inp, Root), Root, decls, d)
           IN  [W EXCEPT !.inp = r.inp,
                         !.ev = @ \o r.ev,
                         !.stack = MarkNested(@)]

\* ActivityTablePad.prompt_name up to start_loop, in a new activation.
prompt_name(W, is_new, activity) ==
    IF W.pad.cursor >= Len(W.pad.names)
      THEN Raise(W, "IndexError")
      ELSE
        LET W1 == [W EXCEPT !.pad.names[W.pad.cursor + 1] =
                                W.week.objs[activity].name]
            W2 == capture(W1, Len(W.stack) + 1, NameDecls)
            frame == [phase |-> "name", pc |-> "loop", is_new |-> is_new,
                      activity |-> activity, activity_name |-> <<>>,
                      rgb |-> <<0, 0, 0>>, colors_str |-> <<>>,
                      entryFb |-> W.inp[Root].fallback,
                      entryCtl |-> W.inp[Root].controls,
                      nested |-> FALSE]
        IN  IF W2.exc # "none" THEN W2
            ELSE [W2 EXCEPT !.stack = Append(@, frame)]

\* ActivityTablePad.prompt_colors up to start_loop, in the top activation.
prompt_colors(W) ==
    LET d == Len(W.stack)
        f == W.stack[d]
        o == W.week.objs[f.activity]
        cs == <<Fmt03d(o.r), Fmt03d(o.g), Fmt03d(o.b)>>
        W1 == [W EXCEPT !.pad.color_index = 0, !.pad.digit_index = 0]
    IN  IF W1.pad.cursor >= Len(W1.pad.names)
          THEN Raise(W1, "IndexError")
          ELSE
            LET W2 == [W1 EXCEPT !.pad.names[W1.pad.cursor + 1] = ColorsText(cs)]
                W3 == capture(W2, d, ColorsDecls)
            IN  IF W3.exc # "none" THEN W3
                ELSE [W3 EXCEPT !.stack[d] =
                        [f EXCEPT !.phase = "colors", !.pc = "loop",
                                  !.rgb = <<o.r, o.g, o.b>>,
                                  !.colors_str = cs,
                                  !.entryFb = W.inp[Root].fallback,
                                  !.entryCtl = W.inp[Root].controls,
                                  !.nested = FALSE]]

\* The smallest identity no Activity object has.
NewId(objs) ==
    CHOOSE n \in 1..(Cardinality(DOMAIN objs) + 1) :
        n \notin DOMAIN objs /\ \A m \in 1..(n - 1) : m \in DOMAIN objs

\* ActivityTablePad.edit up to the start_loop of prompt_name.
edit(W) ==
    LET ca == cursor_activity(W) IN
    IF ca.exc # "none" THEN Raise(W, ca.exc)
    ELSE IF IsNone(ca.v)
      THEN LET id == NewId(W.week.objs)
               fresh == [name |-> <<>>, r |-> 0, g |-> 0, b |-> 0]
               W1 == [W EXCEPT
                        !.week.objs = [x \in DOMAIN W.week.objs \cup {id} |->
                                          IF x = id THEN fresh
                                          ELSE W.week.objs[x]],
                        !.pad.names = Append(@, fresh.name)]
           IN  prompt_name(W1, TRUE, id)
      ELSE prompt_name(W, FALSE, Val(ca.v))

\* The end of edit: copy_activities, draw_activities, select(0), return.
edit_end(W) ==
    LET W1 == ActivityTablePad_select(draw_activities(copy_activities(W)), 0)
    IN  [W1 EXCEPT !.stack = SubSeq(@, 1, Len(@) - 1)]

\* edit after prompt_name has returned self.activities_names[self.cursor].
after_name(W) ==
    IF W.pad.cursor >= Len(W.pad.names)
      THEN Raise(W, "IndexError")
      ELSE
        LET name == W.pad.names[W.pad.cursor + 1]
            W1 == [W EXCEPT !.stack[Len(W.stack)].activity_name = name]
        IN  IF name # <<>> THEN prompt_colors(W1) ELSE edit_end(W1)

\* edit after prompt_colors has returned r, g, b: add_activity for a new
\* activity, edit_activity, and the cursor goes to the activity.
after_colors(W) ==
    LET f == W.stack[Len(W.stack)]
        a == f.activity
        added == IF f.is_new
                   THEN sorted(W.week.objs, Append(W.week.acts, a))
                   ELSE W.week.acts
        objs == [W.week.objs EXCEPT ![a] =
                    [name |-> f.activity_name,
                     r |-> f.rgb[1], g |-> f.rgb[2], b |-> f.rgb[3]]]
        acts == sorted(objs, added)
        W1 == [W EXCEPT !.week.objs = objs, !.week.acts = acts]
    IN  IF IndexOf(acts, a) = -1
          THEN Raise(W1, "ValueError")
          ELSE edit_end([W1 EXCEPT !.pad.cursor = IndexOf(acts, a)])

\* ActivityTablePad.draw_activities_markers reads weekdata.activities[i]
\* for every i below len(activities_names); what it draws is not modelled.
draw_activities_markers(W) ==
    IF Len(W.pad.names) > Len(W.week.acts) THEN Raise(W, "IndexError") ELSE W

\* The loop of WeekTab.assign over timetable.selected: WeekData.assign.
RECURSIVE AssignEach(_, _, _, _, _)
AssignEach(timetable, selected, k, activity, verify) ==
    IF k > Len(selected) THEN timetable
    ELSE LET y == selected[k][1] + 1
             x == selected[k][2] + 1
         IN  AssignEach(IF verify
                          THEN [timetable EXCEPT ![y][x].verify = activity]
                          ELSE [timetable EXCEPT ![y][x].plan = activity],
                        selected, k + 1, activity, verify)

\* WeekTab.assign; WeekTab.input holds the key in c.
assign(W) ==
    LET ca == cursor_activity(W)
        W1 == draw_activities_markers(W)
    IN  IF ca.exc # "none" THEN Raise(W, ca.exc)
        ELSE IF W1.exc # "none" THEN W1
        ELSE [W EXCEPT !.week.timetable =
                 AssignEach(@, W.tt.selected, 1, ca.v,
                            W.inp["tabInput"].c = KeyC(KEY_e))]

\* A plausible slip: the timeslots keep the activity that is deleted.
ClearNothing(timetable, activity) == timetable

\* The loop of WeekTab.activitytable_delete over the timetable; activity
\* is None on the "+ new" row, and None == None.
ClearActivity(timetable, activity) ==
    [y \in DOMAIN timetable |->
       [x \in DOMAIN timetable[y] |->
          [plan |-> IF timetable[y][x].plan = activity
                      THEN None ELSE timetable[y][x].plan,
           verify |-> IF timetable[y][x].verify = activity
                        THEN None ELSE timetable[y][x].verify]]]

\* list.remove: the first element equal to x goes.
Remove(s, x) ==
    LET n == IndexOf(s, x) + 1
    IN  SubSeq(s, 1, n - 1) \o SubSeq(s, n + 1, Len(s))

\* ActivityTablePad.delete
ActivityTablePad_delete(W) ==
    IF W.pad.cursor = Len(W.pad.names) THEN W
    ELSE LET ca == cursor_activity(W) IN
         IF ca.exc # "none" THEN Raise(W, ca.exc)
         ELSE IF IsNone(ca.v) \/ IndexOf(W.week.acts, Val(ca.v)) = -1
           THEN Raise(W, "ValueError")
         ELSE ActivityTablePad_select(
                  draw_activities(copy_activities(
                      [W EXCEPT !.week.acts = Remove(@, Val(ca.v))])), 0)

\* WeekTab.activitytable_delete
activitytable_delete(W) ==
    LET ca == cursor_activity(W) IN
    IF ca.exc # "none" THEN Raise(W, ca.exc)
    ELSE ActivityTablePad_delete(
             [W EXCEPT !.week.timetable = ClearActivity(@, ca.v)])

\* The closure type_digit of activation d of prompt_colors.  colors_str is
\* the list of that activation; the r, g, b it assigns are its own locals,
\* and change_color sets the curses colour, not the Activity's r, g, b.
type_digit(W, d) ==
    LET ci == W.pad.color_index
        di == W.pad.digit_index
        cs == W.stack[d].colors_str
        cs2 == [cs EXCEPT ![ci + 1] = PutChar(cs[ci + 1], di, W.inp[Root].c.v[1])]
        W1 == [W EXCEPT !.stack[d].colors_str = cs2,
                        !.pad.digit_index = (di + 1) % 3]
    IN  IF W.pad.cursor >= Len(W.pad.names)
          THEN Raise(W1, "IndexError")
          ELSE [W1 EXCEPT !.pad.names[W.pad.cursor + 1] = ColorsText(cs2)]

\* The body of a bound function. resize_term lays the frames out again and,
\* when the width of the activity table changed, Pad.resize makes the pad
\* anew and draw_static draws it.
Invoke(W, h, redraw) ==
    LET cur == W.pad.cursor
        inrange == cur < Len(W.pad.names)
    IN  CASE h.fn = "resize_term" ->
               LET W1 == [W EXCEPT !.ev = @ \o
                            <<Event("layout", Root, "twoeight", NoHandler, 0)>>]
               IN  IF redraw THEN draw_activities(W1) ELSE W1
          [] h.fn = "switch_tab" ->
               [W EXCEPT !.inp = install(@, Root, "twoeight", <<"tab">>,
                                         W.inp[Root].screen)]
          [] h.fn = "exit" -> Raise(W, "CleanExit")
          [] h.fn = "activitytable_down" -> ActivityTablePad_select(W, 1)
          [] h.fn = "activitytable_edit" -> edit(W)
          [] h.fn = "confirm_name" -> Raise(W, "InputBreak")
          [] h.fn = "type_char" ->
               IF inrange
                 THEN [W EXCEPT !.pad.names[cur + 1] = @ \o W.inp[Root].c.v]
                 ELSE Raise(W, "IndexError")
          [] h.fn = "confirm_colors" ->
               IF W.pad.color_index >= 2
                 THEN Raise(W, "InputBreak")
                 ELSE [W EXCEPT !.pad.color_index = @ + 1,
                                !.pad.digit_index = 0]
          [] h.fn = "type_digit" -> type_digit(W, h.frame)
          [] h.fn = "assign" -> assign(W)
          [] h.fn = "activitytable_delete" -> activitytable_delete(W)

(***************************************************************************)
(* SpecApp: the program from the start of main's input loop. A step reads  *)
(* one key in the innermost running loop, or continues edit after a prompt *)
(* has returned, or takes an exception one capture further out.            *)
(***************************************************************************)

NoExit ==
    [valid |-> FALSE, how |-> "none", nested |-> FALSE,
     entryFb |-> None, entryCtl |-> None, fbAtExit |-> None]

\* History: the capture of activation f, exited now.
ExitOf(f, I, how) ==
    [valid |-> TRUE, how |-> how, nested |-> f.nested,
     entryFb |-> f.entryFb, entryCtl |-> f.entryCtl,
     fbAtExit |-> I[Root].fallback]

\* main: CleanExit ends the program cleanly, and so does a return of
\* start_loop; any other exception ends it with a traceback.
Ended(exc) ==
    [status |-> IF exc \in {"CleanExit", "InputBreak"} THEN "exited" ELSE "crashed",
     exc |-> exc]


\* The Activity objects something still refers to.
\* The activities the timeslots refer to.
Referenced(timetable) ==
    UNION {UNION {Range(timetable[y][x].plan) \cup Range(timetable[y][x].verify) :
                    x \in DOMAIN timetable[y]} :
             y \in DOMAIN timetable}

Live(W) ==
    [W.week EXCEPT !.objs =
        [x \in {W.week.acts[n] : n \in DOMAIN W.week.acts}
                 \cup {W.stack[n].activity : n \in DOMAIN W.stack}
                 \cup Referenced(W.week.timetable) |->
           W.week.objs[x]]]

World ==
    [inp |-> inp, stack |-> stack, week |-> week, pad |-> apad, tt |-> vpad,
     ev |-> <<>>, exc |-> "none"]

\* The program at the start of main's input loop; tt is the TimetablePad.
InitAppWith(tt) ==
    /\ inp = AppInputs
    /\ ev = <<>>
    /\ op = IdleOp
    /\ newest = <<>>
    /\ stack = <<>>
    /\ week = [objs |-> [x \in 1..NrActivities |->
                           [name |-> DummyName(x - 1),
                            r |-> DummyColor, g |-> 0, b |-> 999]],
               acts |-> [n \in 1..NrActivities |-> n],
               timetable |->
                 [y \in 1..WeekSegments |->
                    [x \in 1..NrDays |->
                       [plan |-> Some(1 + ((y + x) % NrActivities)),
                        verify |-> Some(1 + (x % NrActivities))]]]]
    /\ apad = [names |-> [n \in 1..NrActivities |-> DummyName(n - 1)],
               cursor |-> 0, height |-> NrActivities + 1,
               color_index |-> -1, digit_index |-> -1]
    /\ run = [status |-> "running", exc |-> "none", edits |-> 0]
    /\ lastExit = NoExit
    /\ vpad = tt
    /\ vop = <<>>
    /\ IdleLayout

\* SpecApp follows no handler that reads the TimetablePad.
InitApp == InitAppWith(<<>>)

\* Where the step leaves the program. InputBreak is caught by the loop that
\* is running: its "with" block exits and the prompt is about to return.
\* Any other exception starts to unwind, or ends the program when no prompt
\* is running.
Land(W, edits) ==
    LET d == Len(W.stack)
        now == IF W.exc \in {"none", "InputBreak"} /\ (W.exc = "none" \/ d > 0)
                 THEN [status |-> "running", exc |-> "none"]
               ELSE IF d = 0 THEN Ended(W.exc)
               ELSE [status |-> "raising", exc |-> W.exc]
    IN
    /\ run' = [status |-> now.status, exc |-> now.exc, edits |-> edits]
    /\ ev' = W.ev
    /\ week' = Live(W)
    /\ apad' = W.pad
    /\ vpad' = W.tt
    /\ CASE W.exc = "none" ->
              /\ inp' = W.inp /\ stack' = W.stack
              /\ lastExit' = NoExit
         [] W.exc = "InputBreak" /\ d > 0 ->
              /\ inp' = Exit(W.inp, Root)
              /\ stack' = [W.stack EXCEPT ![d].pc = "returned"]
              /\ lastExit' = ExitOf(W.stack[d], W.inp, "break")
         [] OTHER ->
              /\ inp' = W.inp /\ stack' = W.stack
              /\ lastExit' = NoExit

\* The bounds: the handler is one whose body is followed, typing stops at
\* MaxName characters, calls of edit at MaxEdits.
Followed(W, h) ==
    /\ h.fn \in AppHandlers \cup {"none"}
    /\ (h.fn = "type_char" /\ W.pad.cursor < Len(W.pad.names))
          => Len(W.pad.names[W.pad.cursor + 1]) < MaxName
    /\ h.fn = "activitytable_edit" => run.edits < MaxEdits

\* start_loop: self.process(self.screen.getch()) in the innermost loop.
\* With the chain (current_tab,) the handler call is the last thing process
\* does, so the body of the handler follows process here.
Key(k, redraw) ==
    /\ run.status = "running"
    /\ stack # <<>> => stack[Len(stack)].pc = "loop"
    /\ inp[Root].screen = "stdscr"
    /\ LET r == process(inp, Root, k)
           calls == SelectSeq(r.ev, LAMBDA e : e.type = "call")
           h == IF calls = <<>> THEN NoHandler ELSE calls[Len(calls)].h
           W0 == [World EXCEPT !.inp = r.inp, !.ev = r.ev, !.exc = r.exc]
           W1 == IF r.exc # "none" \/ calls = <<>> THEN W0
                 ELSE Invoke(W0, h, redraw)
       IN  /\ Followed(W0, h)
           /\ Land(W1, IF h.fn = "activitytable_edit" /\ r.exc = "none"
                          THEN run.edits + 1 ELSE run.edits)
           /\ op' = [IdleOp EXCEPT !.kind = "key", !.keys = <<k>>, !.h = h,
                                   !.depth = Len(stack)]
    /\ UNCHANGED <<newest, vop, layoutVars>>

\* edit goes on after prompt_name or prompt_colors has returned. An
\* exception here leaves the activation, which is in no "with" block.
Continue ==
    /\ run.status = "running"
    /\ stack # <<>>
    /\ stack[Len(stack)].pc = "returned"
    /\ LET W1 == IF stack[Len(stack)].phase = "name"
                   THEN after_name(World) ELSE after_colors(World)
           W2 == IF W1.exc = "none" THEN W1
                 ELSE [W1 EXCEPT !.stack = SubSeq(stack, 1, Len(stack) - 1)]
       IN  Land(W2, run.edits)
    /\ op' = [IdleOp EXCEPT !.kind = "continue"]
    /\ UNCHANGED <<newest, vop, layoutVars>>

\* An exception leaves the innermost "with" block: __exit__ runs, and the
\* exception goes on through edit and the process call that ran it.
Unwind ==
    /\ run.status = "raising"
    /\ stack # <<>>
    /\ stack[Len(stack)].pc = "loop"
    /\ inp' = Exit(inp, Root)
    /\ stack' = SubSeq(stack, 1, Len(stack) - 1)
    /\ week' = Live([World EXCEPT !.stack = SubSeq(stack, 1, Len(stack) - 1)])
    /\ lastExit' = ExitOf(stack[Len(stack)], inp, "exception")
    /\ run' = IF Len(stack) = 1
                THEN [run EXCEPT !.status = Ended(run.exc).status]
                ELSE run
    /\ ev' = <<>>
    /\ op' = [IdleOp EXCEPT !.kind = "unwind"]
    /\ UNCHANGED <<apad, newest, scrollVars, layoutVars>>

NextApp ==
    \/ \E k \in AppKeys, redraw \in BOOLEAN : Key(k, redraw)
    \/ Continue
    \/ Unwind

SpecApp == InitApp /\ [][NextApp]_vars

(***************************************************************************)
(* SpecColors: the program from the start of main's input loop, read with  *)
(* the keys of an edit that types colours: 'o', Enter and two digits.      *)
(***************************************************************************)
ColorKeys == {KEY_o, KEY_NL, KEY_1, KEY_7}

NextColors ==
    \/ \E k \in ColorKeys : Key(k, FALSE)
    \/ Continue

SpecColors == InitApp /\ [][NextColors]_vars

\* A capture loop is running.
Captured == stack # <<>> /\ stack[Len(stack)].pc = "loop"

\* C3: when a capture is exited, by InputBreak or by an exception that
\* leaves its loop, and no other capture was started inside it, the chain
\* and the binding table of the root Input are equal to what they were
\* immediately before the capture was entered.
C3_ExitRestores ==
    (lastExit.valid /\ ~lastExit.nested)
    => /\ inp[Root].fallback = lastExit.entryFb
       /\ inp[Root].controls = lastExit.entryCtl

\* A prompt nested in another one was confirmed after switch_tab had
\* installed the chain again inside it: the chain it left differs from the
\* empty chain of the capture, and the table it left lacks its bindings.
C3_Witness ==
    /\ lastExit.valid /\ ~lastExit.nested
    /\ lastExit.how = "break"
    /\ Len(stack) >= 2
    /\ lastExit.fbAtExit = Some(<<"tab">>)
    /\ inp[Root].fallback = lastExit.entryFb
    /\ inp[Root].controls = lastExit.entryCtl

\* C4: a key read while a capture loop runs is dispatched only through the
\* bindings registered for that capture (resize_term apart, which C6 keeps):
\* no binding from before the capture is invoked and no chain entry is
\* offered the key.
C4_ExclusiveDispatch ==
    (op.kind = "key" /\ op.depth > 0)
    => \A n \in DOMAIN ev :
          /\ ev[n].type # "offer"
          /\ ev[n].type = "call"
                => \/ ev[n].h.fn = "resize_term"
                   \/ /\ ev[n].h.fn \in CaptureHandlers
                      /\ ev[n].h.frame = op.depth

\* C5: captures nest: every exit of a capture, with or without captures
\* started inside it, leaves the chain and the binding table as they were
\* when that capture was entered, and while the program runs neither is
\* ever None.
C5_NestedRestores ==
    /\ lastExit.valid
          => /\ inp[Root].fallback = lastExit.entryFb
             /\ inp[Root].controls = lastExit.entryCtl
    /\ run.status = "running"
          => ~IsNone(inp[Root].controls) /\ ~IsNone(inp[Root].fallback)

\* C6: KEY_RESIZE read while a capture loop runs invokes resize_term, which
\* runs the layout pass; the capture goes on with the same activations and
\* the same bindings, and the entry texts and the cursor are unchanged.
C6_ResizeKeepsCapture ==
    [][(Captured /\ op'.kind = "key" /\ op'.keys = <<KEY_RESIZE>>)
        => /\ \E n \in DOMAIN ev' : ev'[n].type = "layout"
           /\ run'.status = "running"
           /\ stack' = stack
           /\ inp'[Root].controls = inp[Root].controls
           /\ inp'[Root].fallback = inp[Root].fallback
           /\ apad'.names = apad.names
           /\ apad'.cursor = apad.cursor]_vars

(***************************************************************************)
(* VertScrollPad                                                           *)
(***************************************************************************)

\* Largest content height (TimetablePad.height, ActivityTablePad.height).
MaxHeight == 6
\* Largest clip height a parent frame offers (bry - uly + 1); the smallest is
\* 0, because Frame.resize clamps uly to 0..height and bry to -1..height-1.
MaxClip == 6

\* clipheight // 4
prescroll(p) == p.clipheight \div 4

\* A plausible slip: the pad is centred on the focus row on every call.
ScrollTargetCentred(p, select) == select - prescroll(p)

\* A plausible slip: the pad follows the focus row upwards only.
ScrollTargetUpOnly(p, select) == Min(p.scrollpos, select - prescroll(p))

\* The offset the hysteresis rule asks for, before clamping.
ScrollTarget(p, select) ==
    LET select_scroll_delta_lower == select - prescroll(p)
        select_scroll_delta_upper == select - p.clipheight + prescroll(p) + 1
    IN  IF select_scroll_delta_upper > p.scrollpos
          THEN select_scroll_delta_upper
          ELSE IF select_scroll_delta_lower < p.scrollpos
                 THEN select_scroll_delta_lower
                 ELSE p.scrollpos

\* A plausible slip: the lower clamp is forgotten.
ClampNoFloor(p, s) == Min(p.height - p.clipheight, s)

\* max(0, min(self.height - self.clipheight, self.scrollpos))
Clamp(p, s) == Max(0, Min(p.height - p.clipheight, s))

\* VertScrollPad.scroll
scroll(p, select) ==
    [p EXCEPT !.scroll_variable = select,
              !.scrollpos = Clamp(p, ScrollTarget(p, select))]

\* VertScrollPad.resize: Pad.resize recomputes clipheight from the band the
\* parent assigned (bry - uly + 1), then the pad scrolls to its focus row.
VertScrollPad_resize(p, clip) ==
    LET q == [p EXCEPT !.clipheight = clip]
    IN  scroll(q, q.scroll_variable)

\* The pad after its first resize (RootFrame.__init__ ends in resize_term).
InitScroll ==
    /\ \E h \in 1..MaxHeight, clip \in 0..MaxClip :
         vpad = VertScrollPad_resize(
                    [height |-> h, clipheight |-> clip,
                     scrollpos |-> 0, scroll_variable |-> 0], clip)
    /\ vop = [kind |-> "resize", old |-> 0]
    /\ inp = <<>> /\ ev = <<>> /\ op = <<>> /\ newest = <<>>
    /\ IdleApp
    /\ IdleLayout

\* select(): the cursor is reduced modulo height, then scroll(cursor).
Scroll(select) ==
    /\ vpad' = scroll(vpad, select)
    /\ vop' = [kind |-> "scroll", old |-> vpad.scrollpos]
    /\ UNCHANGED <<inputVars, appVars, layoutVars>>

\* A terminal resize offers the pad a new clip height.
Resize(clip) ==
    /\ vpad' = VertScrollPad_resize(vpad, clip)
    /\ vop' = [kind |-> "resize", old |-> vpad.scrollpos]
    /\ UNCHANGED <<inputVars, appVars, layoutVars>>

\* ActivityTablePad.draw_activities: the content height follows the number
\* of activities, and the pad is resized at once.
SetHeight(h) ==
    /\ h # vpad.height
    /\ vpad' = VertScrollPad_resize([vpad EXCEPT !.height = h], vpad.clipheight)
    /\ vop' = [kind |-> "height", old |-> vpad.scrollpos]
    /\ UNCHANGED <<inputVars, appVars, layoutVars>>

NextScroll ==
    \/ \E select \in 0..(vpad.height - 1) : Scroll(select)
    \/ \E clip \in 0..MaxClip : Resize(clip)
    \/ \E h \in 1..MaxHeight : SetHeight(h)

SpecScroll == InitScroll /\ [][NextScroll]_vars

\* The valid range of scrollpos.
ValidScrollpos(p) == 0 <= p.scrollpos /\ p.scrollpos <= Max(0, p.height - p.clipheight)

\* The middle band of focus rows around the current offset.
InBand(p, select) ==
    /\ p.scrollpos + prescroll(p) <= select
    /\ select <= p.scrollpos + p.clipheight - prescroll(p) - 1

\* C8: after every scroll call, made directly, by a resize or by a change of
\* the content height, scrollpos lies in [0, max(0, height - clipheight)].
C8_ScrollposInRange ==
    vop.kind \in {"scroll", "resize", "height"} => ValidScrollpos(vpad)

\* A scroll call has left the offset of a visible pad strictly inside its
\* range.
C8_Witness ==
    /\ vop.kind = "scroll"
    /\ vop.old # vpad.scrollpos
    /\ vpad.clipheight >= 4
    /\ vpad.scrollpos > 0
    /\ vpad.scrollpos < vpad.height - vpad.clipheight

\* C9: scroll(select) with select inside the middle band and scrollpos valid
\* leaves scrollpos unchanged, and so does a second call with the same select.
C9_BandIdempotent ==
    [][\A select \in 0..(MaxHeight - 1) :
          (vop'.kind = "scroll" /\ vpad'.scroll_variable = select
             /\ ValidScrollpos(vpad) /\ InBand(vpad, select))
          => /\ vpad'.scrollpos = vpad.scrollpos
             /\ scroll(vpad', select).scrollpos = vpad.scrollpos]_vars

\* A scroll call was made with the focus row strictly inside a band that is
\* wider than one row, away from both ends of the range.
C9_Witness ==
    /\ vop.kind = "scroll"
    /\ vop.old = vpad.scrollpos
    /\ vpad.clipheight >= 4
    /\ vpad.scrollpos > 0
    /\ InBand(vpad, vpad.scroll_variable)
    /\ InBand(vpad, vpad.scroll_variable + 1)
    /\ vpad.scroll_variable > vpad.scrollpos + prescroll(vpad)

\* C10 as stated: over every scroll call, scrollpos grows only when the focus
\* row is past the band, shrinks only when it is above the band, and a focus
\* row inside the band never moves it.
C10_Original ==
    [][LET select == vpad'.scroll_variable
           old == [vpad' EXCEPT !.scrollpos = vpad.scrollpos]
       IN  /\ vpad'.scrollpos > vpad.scrollpos
                => select > old.scrollpos + old.clipheight - prescroll(old) - 1
           /\ vpad'.scrollpos < vpad.scrollpos
                => select < old.scrollpos + prescroll(old)
           /\ InBand(old, select) => vpad'.scrollpos = vpad.scrollpos]_vars

\* C10 amended: the same, except that an offset above the new maximum
\* max(0, height - clipheight) is clamped down to it whatever the focus row.
C10_Amended ==
    [][LET select == vpad'.scroll_variable
           old == [vpad' EXCEPT !.scrollpos = vpad.scrollpos]
       IN  /\ vpad'.scrollpos > vpad.scrollpos
                => select > old.scrollpos + old.clipheight - prescroll(old) - 1
           /\ vpad'.scrollpos < vpad.scrollpos
                => \/ select < old.scrollpos + prescroll(old)
                   \/ /\ old.scrollpos > Max(0, old.height - old.clipheight)
                      /\ vpad'.scrollpos = Max(0, old.height - old.clipheight)
           /\ (InBand(old, select) /\ ValidScrollpos(old))
                => vpad'.scrollpos = vpad.scrollpos]_vars

\* A resize has clamped the offset down to the new maximum while the focus
\* row was inside the middle band of the old offset.
C10_Witness ==
    /\ vop.kind = "resize"
    /\ vpad.clipheight >= 4
    /\ vpad.scrollpos < vop.old
    /\ vpad.scrollpos = vpad.height - vpad.clipheight
    /\ InBand([vpad EXCEPT !.scrollpos = vop.old], vpad.scroll_variable)

(***************************************************************************)
(* SpecScrollTo: scroll calls alone, on pads of every small size and on    *)
(* the timetable of the dummy week (48 rows) behind a clip of 10 rows.     *)
(* vop keeps the last three calls: focus row, offset before and after.     *)
(***************************************************************************)

\* The sizes the pads start with: (height, clipheight).
ScrollToSizes ==
    {<<h, clip>> : h \in 1..MaxHeight, clip \in 1..MaxClip} \cup {<<48, 10>>}

\* The focus rows scroll is called with: every row of a small pad, and for
\* a larger one the first row, the last row and two rows between.
FocusRows(p) ==
    IF p.height <= MaxHeight THEN 0..(p.height - 1)
    ELSE {0, 9, p.height \div 2, p.height - 1}

InitScrollTo ==
    /\ \E sz \in ScrollToSizes :
         vpad = VertScrollPad_resize(
                    [height |-> sz[1], clipheight |-> sz[2],
                     scrollpos |-> 0, scroll_variable |-> 0], sz[2])
    /\ vop = [kind |-> "resize", old |-> 0, calls |-> <<>>]
    /\ inp = <<>> /\ ev = <<>> /\ op = <<>> /\ newest = <<>>
    /\ IdleApp
    /\ IdleLayout

\* The last three entries of a sequence.
LastThree(s) == IF Len(s) <= 3 THEN s ELSE SubSeq(s, Len(s) - 2, Len(s))

ScrollTo(select) ==
    /\ vpad' = scroll(vpad, select)
    /\ vop' = [kind |-> "scroll", old |-> vpad.scrollpos,
               calls |-> LastThree(Append(vop.calls,
                            [select |-> select, old |-> vpad.scrollpos,
                             new |-> scroll(vpad, select).scrollpos]))]
    /\ UNCHANGED <<inputVars, appVars, layoutVars>>

NextScrollTo == \E select \in FocusRows(vpad) : ScrollTo(select)

SpecScrollTo == InitScrollTo /\ [][NextScrollTo]_vars

\* C11: with V = clipheight >= 1, H = height, m = V // 4 and offset s,
\* scroll(select) yields clamp(select - V + m + 1) if that exceeds s, else
\* clamp(select - m) if that is below s, else clamp(s), where
\* clamp(x) = max(0, min(H - V, x)); and with V = 10, H = 48, s = 0 the
\* calls scroll(0), scroll(9), scroll(47) yield 0, 2 and 38.
C11_ScrollFormula ==
    [][vop'.kind = "scroll" =>
        LET V == vpad.clipheight
            H == vpad.height
            m == V \div 4
            s == vpad.scrollpos
            select == vpad'.scroll_variable
            up == select - V + m + 1
            low == select - m
            want == IF up > s THEN up ELSE IF low < s THEN low ELSE s
            w == vop'.calls
        IN  /\ V >= 1
            /\ vpad'.scrollpos = Max(0, Min(H - V, want))
            /\ (/\ V = 10 /\ H = 48 /\ Len(w) = 3
                /\ w[1].select = 0 /\ w[1].old = 0
                /\ w[2].select = 9 /\ w[3].select = 47)
               => (w[1].new = 0 /\ w[2].new = 2 /\ w[3].new = 38)]_vars

\* The three calls of the scenario were made in this order from offset 0.
C11_Witness ==
    /\ vpad.clipheight = 10 /\ vpad.height = 48
    /\ Len(vop.calls) = 3
    /\ vop.calls[1].select = 0 /\ vop.calls[1].old = 0
    /\ vop.calls[2].select = 9 /\ vop.calls[3].select = 47
    /\ vpad.scrollpos = 38

(***************************************************************************)
(* SpecTimetable: the TimetablePad of a week of a few time segments behind *)
(* a clip of a few rows, and the movement keys of WeekTab.  vpad holds the *)
(* pad, cursor and selection included; vop the key and the cursor before.  *)
(***************************************************************************)
\* nr_timesegments of the week (the program's dummy week has 48).
MaxSegments == 3

MovementKeys == {KEY_w, KEY_W, KEY_s, KEY_S, KEY_a, KEY_A, KEY_d, KEY_D}

\* chr(c).isupper() for the keys WeekTab binds.
IsUpper(c) == c \in 65..90

\* The function WeekTab binds to the key.
BoundFn(decls, k) ==
    LET n == CHOOSE n \in DOMAIN decls : k \in Range(decls[n][1])
    IN  decls[n][2]

\* (d_y, d_x) that the bound function passes to timetable_select.
TimetableDelta(fn) ==
    CASE fn = "timetable_up" -> <<-1, 0>>
      [] fn = "timetable_down" -> <<1, 0>>
      [] fn = "timetable_left" -> <<0, -1>>
      [] fn = "timetable_right" -> <<0, 1>>

\* A plausible slip: the cursor stops at the edge.
WrapStop(v, n) == Max(0, Min(n - 1, v))

\* cursor %= n, Python's % for n > 0.
Wrap(v, n) == v % n

\* tuple((y, x) for y in range(y0, y1 + 1) for x in range(x0, x1 + 1))
Rectangle(y0, y1, x0, x1) ==
    LET w == x1 - x0 + 1
    IN  [n \in 1..((y1 - y0 + 1) * w) |->
           <<y0 + ((n - 1) \div w), x0 + ((n - 1) % w)>>]

\* TimetablePad.__init__
TimetablePad_init(h) ==
    [height |-> h, clipheight |-> 0, scrollpos |-> 0, scroll_variable |-> 0,
     cursor_y |-> 0, cursor_x |-> 0, hold_cursor_y |-> 0, hold_cursor_x |-> 0,
     selected |-> << <<0, 0>> >>]

\* TimetablePad.select; what it draws is not modelled.
TimetablePad_select(p, shift) ==
    LET cy == Wrap(p.cursor_y, p.height)
        cx == Wrap(p.cursor_x, NrDays)
        p1 == scroll([p EXCEPT !.cursor_y = cy, !.cursor_x = cx], cy)
    IN  IF ~shift
        THEN [p1 EXCEPT !.hold_cursor_y = cy, !.hold_cursor_x = cx,
                        !.selected = << <<cy, cx>> >>]
        ELSE [p1 EXCEPT !.selected =
                 Rectangle(Min(cy, p.hold_cursor_y), Max(cy, p.hold_cursor_y),
                           Min(cx, p.hold_cursor_x), Max(cx, p.hold_cursor_x))]

\* WeekTab.timetable_select with the key in self.input.c.
timetable_select(p, d_y, d_x, c) ==
    TimetablePad_select([p EXCEPT !.cursor_y = @ + d_y, !.cursor_x = @ + d_x],
                        IsUpper(c))

InitTimetable ==
    /\ \E h \in 1..MaxSegments, clip \in 0..MaxSegments :
         vpad = VertScrollPad_resize(TimetablePad_init(h), clip)
    /\ vop = [kind |-> "resize", key |-> 0, old |-> <<0, 0>>]
    /\ inp = <<>> /\ ev = <<>> /\ op = <<>> /\ newest = <<>>
    /\ IdleApp
    /\ IdleLayout

\* A movement key reaches WeekTab through the chain of the root Input.
Move(k) ==
    /\ LET d == TimetableDelta(BoundFn(TabDecls, k))
       IN  vpad' = timetable_select(vpad, d[1], d[2], k)
    /\ vop' = [kind |-> "move", key |-> k,
               old |-> <<vpad.cursor_y, vpad.cursor_x>>]
    /\ UNCHANGED <<inputVars, appVars, layoutVars>>

NextTimetable == \E k \in MovementKeys : Move(k)

SpecTimetable == InitTimetable /\ [][NextTimetable]_vars

(***************************************************************************)
(* SpecWeek: the program from the start of main's input loop with the keys *)
(* that assign, delete and edit activities.  The timetable's selection is  *)
(* the one the program starts with, or one made with 'D' before.           *)
(***************************************************************************)
\* Presses of 'D' before the first key that is followed.
MaxHeld == 2
\* Calls of edit() in a run of SpecWeek.
MaxWeekEdits == 2

WeekKeys == {KEY_q, KEY_e, KEY_u, KEY_k, KEY_o, KEY_NL}

\* The TimetablePad after its first resize and n presses of 'D'.
RECURSIVE Held(_)
Held(n) ==
    IF n = 0
    THEN VertScrollPad_resize(TimetablePad_init(WeekSegments), WeekSegments)
    ELSE timetable_select(Held(n - 1), 0, 1, KEY_D)

InitWeek == \E n \in 0..MaxHeld : InitAppWith(Held(n))

NextWeek ==
    \/ \E k \in WeekKeys : Key(k, FALSE) /\ run'.edits <= MaxWeekEdits
    \/ Continue

SpecWeek == InitWeek /\ [][NextWeek]_vars

(***************************************************************************)
(* SpecInstall: one Input from its construction on, installed with either  *)
(* of two controllers and any chain, and processing keys in between.       *)
(***************************************************************************)

\* The nodes install is given as controller.
Controllers == {"ctl", "ctl2"}

InstallAs(controller, chain) ==
    /\ inp' = install(inp, "I1", controller, chain, "None")
    /\ ev' = <<>>
    /\ op' = [IdleOp EXCEPT !.kind = "install", !.controller = controller,
                            !.chain = chain]
    /\ UNCHANGED <<newest, appVars, scrollVars, layoutVars>>

NextInstall ==
    \/ \E controller \in Controllers, chain \in Chains : InstallAs(controller, chain)
    \/ \E c \in Keys : Process(c)

SpecInstall == Init /\ [][NextInstall]_vars

\* C17 as stated: in every state from its construction on, the controller
\* of the Input is set.
C17_Original == inp["I1"].controller # "None"

\* C17 amended: an Input is constructed without a controller; install sets
\* the controller and the chain to its arguments in one step and leaves the
\* bindings and the last-key field alone; no other operation changes the
\* controller, so from the first install on the controller is set.
C17_Amended ==
    [][/\ op'.kind = "install"
            => /\ inp'["I1"].controller = op'.controller
               /\ inp'["I1"].fallback = Some(op'.chain)
               /\ inp'["I1"].controls = inp["I1"].controls
               /\ inp'["I1"].c = inp["I1"].c
       /\ op'.kind # "install"
            => inp'["I1"].controller = inp["I1"].controller
       /\ inp["I1"].controller # "None"
            => inp'["I1"].controller # "None"]_vars

\* install has replaced the controller and the chain of an Input that was
\* installed before and had processed a key since.
C17_Witness ==
    /\ op.kind = "install"
    /\ op.controller = "ctl2" /\ inp["I1"].controller = "ctl2"
    /\ op.chain = <<"NB", "NA">> /\ inp["I1"].fallback = Some(<<"NB", "NA">>)
    /\ inp["I1"].c.kind = "key"

(***************************************************************************)
(* Pad and Frame: the layout.                                              *)
(*                                                                         *)
(* A layout is a record [n, exc]: n maps the id of every Pad and Frame     *)
(* object to its attributes, exc is the exception that left the pass, or   *)
(* "none".  Ids are 1..Len(n), the RootFrame is 1 and parent 0 is None.    *)
(* The attributes a Pad gets in resize_abs (justy, absuly, ...) do not     *)
(* exist before its first call: placed tells whether they do.              *)
(***************************************************************************)
LRoot == 1

\* The class attributes of Pad, and the instance as Pad.__init__ leaves it.
PadClass ==
    [kind |-> "Pad", cls |-> "Pad", parent |-> 0, pads |-> <<>>, spawns |-> <<>>,
     height |-> 0, width |-> 0,
     uly |-> 0, ulx |-> 0, bry |-> 0, brx |-> 0,
     justify_y |-> "LEFT", justify_x |-> "LEFT",
     stretch_clipheight |-> FALSE, stretch_clipwidth |-> FALSE,
     min_height |-> 0, min_width |-> 0, max_height |-> 0, max_width |-> 0,
     refreshable |-> FALSE,
     main_axis |-> "Y", sizing_y |-> "FILL", sizing_x |-> "FILL",
     alignment |-> "SNUG", alignment_justify |-> "LEFT",
     bordered |-> FALSE, spawning |-> FALSE,
     clipheight |-> 0, clipwidth |-> 0, placed |-> FALSE,
     init_pad |-> TRUE, pad |-> None,
     justy |-> 0, justx |-> 0,
     absuly |-> 0, absulx |-> 0, absbry |-> 0, absbrx |-> 0]

\* The class attributes of Frame.
FrameClass == [PadClass EXCEPT !.kind = "Frame", !.cls = "Frame"]

IsFrame(p) == p.kind = "Frame"

\* Python's // on integers.
FloorDiv(a, b) == a \div b

\* The early returns of Pad.resize: a clip or a pad without area.
Degenerate(h, w) == h <= 0 \/ w <= 0

\* The clamp of resize_abs to the parent's absolute clip.
ClampNone(a, bound) == a

ClampToParent(a, bound) == Min(a, bound)

\* Pad.resize_abs for one axis: <<just, absul, absbr>> before the parent's
\* offset is added.
AxisAbs(justify, ul, br, length, clip) ==
    CASE justify = "LEFT" ->
           <<0, ul, Min(ul + length - 1, br)>>
      [] justify = "CENTER" ->
           <<FloorDiv(Max(length - clip, 0), 2),
             Max(ul + FloorDiv(clip - length, 2), ul),
             Min(br - FloorDiv(clip - length, 2), br)>>
      [] justify = "RIGHT" ->
           <<Max(length - clip, 0), Max(br - length + 1, ul), br>>

\* Pad.resize_abs.  Reading justy of a parent that resize_abs never reached
\* raises AttributeError, after the pad's own values were stored.
resize_abs(L, i) ==
    LET p == L.n[i]
        y == AxisAbs(p.justify_y, p.uly, p.bry, p.height, p.clipheight)
        x == AxisAbs(p.justify_x, p.ulx, p.brx, p.width, p.clipwidth)
        own == [p EXCEPT !.placed = TRUE,
                         !.justy = y[1], !.absuly = y[2], !.absbry = y[3],
                         !.justx = x[1], !.absulx = x[2], !.absbrx = x[3]]
        par == L.n[p.parent]
    IN  IF p.parent = 0
        THEN [L EXCEPT !.n[i] = own]
        ELSE IF ~par.placed
        THEN [L EXCEPT !.n[i] = own, !.exc = "AttributeError"]
        ELSE [L EXCEPT !.n[i] =
                [own EXCEPT
                   !.justy = Max(y[1], par.justy),
                   !.justx = Max(x[1], par.justx),
                   !.absuly = ClampToParent(y[2] + par.absuly, par.absbry),
                   !.absulx = ClampToParent(x[2] + par.absulx, par.absbrx),
                   !.absbry = ClampToParent(y[3] + par.absuly, par.absbry),
                   !.absbrx = ClampToParent(x[3] + par.absulx, par.absbrx)]]

\* The height or width a stretching pad takes from its clip.
Stretch(clip, min, max) ==
    LET s == Max(clip, min) IN IF max > 0 THEN Min(s, max) ELSE s

\* A plausible slip: the curses pad is created once and never replaced.
NewpadOnlyOnce(p) == p.init_pad /\ IsNone(p.pad)

\* The last test of Pad.resize: the node owns a curses pad and has none yet,
\* or one whose getmaxyx() is not (height + 1, width).
NewpadNeeded(p) ==
    ~(~p.init_pad \/ (~IsNone(p.pad) /\ p.pad = <<p.height + 1, p.width>>))

\* curses.newpad(self.height + 1, self.width), kept as its getmaxyx().
newpad(L, i) ==
    IF L.exc = "none" /\ NewpadNeeded(L.n[i])
    THEN [L EXCEPT !.n[i].pad = <<L.n[i].height + 1, L.n[i].width>>]
    ELSE L

\* Pad.resize.  What draw_static writes into the curses pad is not modelled.
Pad_resize(L, i) ==
    LET p == L.n[i]
        clipheight == p.bry - p.uly + 1
        clipwidth == p.brx - p.ulx + 1
        p1 == [p EXCEPT !.clipheight = clipheight, !.clipwidth = clipwidth]
        height == IF p.parent = 0 THEN clipheight
                  ELSE IF p.stretch_clipheight
                  THEN Stretch(clipheight, p.min_height, p.max_height)
                  ELSE p.height
        width == IF p.parent = 0 THEN clipwidth
                 ELSE IF p.stretch_clipwidth
                 THEN Stretch(clipwidth, p.min_width, p.max_width)
                 ELSE p.width
        p2 == [p1 EXCEPT !.refreshable = IF p.parent = 0 THEN TRUE
                                         ELSE L.n[p.parent].refreshable,
                         !.height = height, !.width = width]
    IN  IF Degenerate(clipheight, clipwidth)
        THEN [L EXCEPT !.n[i] = [p1 EXCEPT !.refreshable = FALSE]]
        ELSE IF Degenerate(height, width)
        THEN [L EXCEPT !.n[i] = [p2 EXCEPT !.refreshable = FALSE]]
        ELSE newpad(resize_abs([L EXCEPT !.n[i] = p2], i), i)

main_length(p, axis) == IF axis = "Y" THEN p.height ELSE p.width

\* sum(main_length(child) for child in pads[:k])
RECURSIVE SumMain(_, _, _, _)
SumMain(n, pads, k, axis) ==
    IF k = 0 THEN 0
    ELSE SumMain(n, pads, k - 1, axis) + main_length(n[pads[k]], axis)

RECURSIVE MaxOff(_, _, _, _)
MaxOff(n, pads, k, axis) ==
    IF k = 1 THEN main_length(n[pads[1]], axis)
    ELSE Max(MaxOff(n, pads, k - 1, axis), main_length(n[pads[k]], axis))

\* Frame.fit_resize.
fit_resize(n, i) ==
    LET f == n[i]
        b == IF f.bordered THEN 2 ELSE 0
        N == Len(f.pads)
        height == IF f.sizing_y # "FIT" THEN f.height
                  ELSE IF f.main_axis = "X" THEN MaxOff(n, f.pads, N, "Y") + b
                  ELSE SumMain(n, f.pads, N, "Y") + b
        width == IF f.sizing_x # "FIT" THEN f.width
                 ELSE IF f.main_axis = "Y" THEN MaxOff(n, f.pads, N, "X") + b
                 ELSE SumMain(n, f.pads, N, "X") + b
    IN  [n EXCEPT ![i].height = height, ![i].width = width]

\* EVEN: child_space, the band of every child but the last.
ChildSpaceByGaps(length, N) == FloorDiv(length, Max(N - 1, 1))

ChildSpace(length, N) == FloorDiv(length, N)

\* The start of a bordered Frame that follows a bordered Frame.
StartApart(start_clip, last_bordered, current_bordered) == start_clip

StartClip(start_clip, last_bordered, current_bordered) ==
    start_clip - (IF last_bordered /\ current_bordered THEN 1 ELSE 0)

\* clip_list of Frame.resize: length is the frame's main length without
\* its border.
clip_list(n, f, length) ==
    LET N == Len(f.pads)
        total == SumMain(n, f.pads, N, f.main_axis)
        coord == CASE f.alignment_justify = "LEFT" -> 0
                   [] f.alignment_justify = "RIGHT" -> length - total
                   [] f.alignment_justify = "CENTER" -> FloorDiv(length - total, 2)
    IN  <<0>> \o
        [k \in 1..(N - 1) |->
           IF f.alignment = "SNUG"
           THEN coord + SumMain(n, f.pads, k, f.main_axis)
           ELSE k * ChildSpace(length, N)]
        \o <<length>>

current_bordered(n, pads, k) ==
    k >= 1 /\ IsFrame(n[pads[k]]) /\ n[pads[k]].bordered

\* The loop of Frame.resize that gives every child its clip in the frame:
\* child_resize_main and child_resize_off.
AssignBands(n, i) ==
    LET f == n[i]
        b == IF f.bordered THEN 1 ELSE 0
        height == f.height - 2 * b
        width == f.width - 2 * b
        length == IF f.main_axis = "Y" THEN height ELSE width
        off_length == IF f.main_axis = "Y" THEN width ELSE height
        clips == clip_list(n, f, length)
        k(c) == CHOOSE j \in 1..Len(f.pads) : f.pads[j] = c
        ul(c) == StartClip(clips[k(c)], current_bordered(n, f.pads, k(c) - 1),
                           current_bordered(n, f.pads, k(c)))
        br(c) == clips[k(c) + 1] - 1
        mul(c) == Max(Min(ul(c), length), 0) + b
        mbr(c) == Max(Min(br(c), length - 1), -1) + b
        oul == Max(Min(0, off_length), 0) + b
        obr == Max(Min(off_length - 1, off_length - 1), -1) + b
    IN  [c \in DOMAIN n |->
           IF c \notin Range(f.pads) THEN n[c]
           ELSE IF f.main_axis = "Y"
           THEN [n[c] EXCEPT !.uly = mul(c), !.bry = mbr(c),
                             !.ulx = oul, !.brx = obr]
           ELSE [n[c] EXCEPT !.ulx = mul(c), !.brx = mbr(c),
                             !.uly = oul, !.bry = obr]]

\* Frame.resize, and resize of any node.  An exception in a child leaves
\* the loop over the children.
RECURSIVE resize(_, _)
RECURSIVE ResizeEach(_, _, _)
ResizeEach(L, pads, k) ==
    IF k > Len(pads) \/ L.exc # "none" THEN L
    ELSE ResizeEach(resize(L, pads[k]), pads, k + 1)

Frame_resize(L, i) ==
    LET L1 == Pad_resize(L, i)
        f == L1.n[i]
    IN  IF L1.exc # "none" THEN L1
        ELSE IF f.alignment = "EVEN" /\ Len(f.pads) = 0
        THEN [L1 EXCEPT !.exc = "ZeroDivisionError"]
        ELSE LET L2 == [L1 EXCEPT !.n = AssignBands(L1.n, i)]
             IN  IF f.spawning THEN L2 ELSE ResizeEach(L2, f.pads, 1)

resize(L, i) == IF IsFrame(L.n[i]) THEN Frame_resize(L, i) ELSE Pad_resize(L, i)

\* Frame.refresh and Pad.refresh: the objects whose curses pad is drawn.
RECURSIVE refresh(_, _)
refresh(n, i) ==
    IF ~n[i].refreshable THEN {}
    ELSE IF ~IsFrame(n[i]) THEN {i}
    ELSE (IF n[i].bordered THEN {i} ELSE {})
         \cup UNION {refresh(n, c) : c \in Range(n[i].pads)}

\* Frame.__init__ and Pad.__init__ as spawn calls them.
Frame_init(n, i, parent) ==
    [n EXCEPT ![i].parent = parent, ![i].pads = <<>>,
              ![i].init_pad = n[i].bordered, ![i].pad = None,
              ![i].stretch_clipheight = (@ \/ n[i].sizing_y = "FILL"),
              ![i].stretch_clipwidth = (@ \/ n[i].sizing_x = "FILL")]

Pad_init(n, i, parent) ==
    [n EXCEPT ![i].parent = parent, ![i].init_pad = TRUE, ![i].pad = None]

\* Frame.spawner_wrapper with the spawner of the class, which spawns the
\* objects listed in spawns; Frame.spawn while the frame is spawning.
RECURSIVE spawner_wrapper(_, _)
RECURSIVE SpawnEach(_, _, _)
spawn(n, f, c) ==
    LET n1 == IF IsFrame(n[c]) THEN spawner_wrapper(Frame_init(n, c, f), c)
              ELSE Pad_init(n, c, f)
    IN  [n1 EXCEPT ![f].pads = Append(@, c)]

SpawnEach(n, f, k) ==
    IF k > Len(n[f].spawns) THEN n
    ELSE SpawnEach(spawn(n, f, n[f].spawns[k]), f, k + 1)

spawner_wrapper(n, f) == fit_resize(SpawnEach(n, f, 1), f)

\* RootFrame.__init__ up to resize_term.
RootFrame_init(decl) == spawner_wrapper(Frame_init(decl, LRoot, 0), LRoot)

\* RootFrame.resize_term on a terminal of termheight x termwidth.
resize_term(n, termheight, termwidth) ==
    LET n1 == [n EXCEPT ![LRoot].uly = 0, ![LRoot].ulx = 0,
                        ![LRoot].bry = termheight - 1,
                        ![LRoot].brx = termwidth - 1]
    IN  resize([n |-> n1, exc |-> "none"], LRoot)

(***************************************************************************)
(* The trees the layout is run on: the tree of the program, and trees of   *)
(* a RootFrame whose spawner spawns up to three children, each of a class  *)
(* that sets the class attributes as the classes of the program do.  A     *)
(* declaration lists the classes in spawn order; spawns holds the ids a    *)
(* spawner spawns.                                                         *)
(***************************************************************************)
MaxTerm == 3
MaxPasses == 2
NrDummyActivities == 10

SizedPad(cls, h, w) == [PadClass EXCEPT !.cls = cls, !.height = h, !.width = w]

\* TwoEight > HeaderPad, WeekTab > TimetableFrame, ActivityFrame.
TwoEightDecl ==
    << [FrameClass EXCEPT !.cls = "TwoEight", !.spawns = <<2, 3>>],
       SizedPad("HeaderPad", 1, 30),
       [FrameClass EXCEPT !.cls = "WeekTab", !.main_axis = "X",
                          !.spawns = <<4, 7>>],
       [FrameClass EXCEPT !.cls = "TimetableFrame", !.sizing_x = "FIT",
                          !.bordered = TRUE, !.spawns = <<5, 6>>],
       SizedPad("TimetableHeaderPad", 3, 48),
       SizedPad("TimetablePad", 48, 48),
       [FrameClass EXCEPT !.cls = "ActivityFrame", !.bordered = TRUE,
                          !.spawns = <<8, 9>>],
       SizedPad("ActivityHeaderPad", 2, 20),
       [SizedPad("ActivityTablePad", NrDummyActivities + 1, 0)
          EXCEPT !.stretch_clipwidth = TRUE, !.min_width = 12] >>

Kinds == {"fixed", "centred", "right", "fill", "fillmin", "bfill", "fit", "fiteven"}

\* The classes of a child and of what it spawns, ids relative to the child.
Template(kind) ==
    CASE kind = "fixed" -> << SizedPad("FixedPad", 2, 2) >>
      [] kind = "centred" ->
           << [SizedPad("CentredPad", 2, 2) EXCEPT !.justify_y = "CENTER",
                                                   !.justify_x = "CENTER"] >>
      [] kind = "right" ->
           << [SizedPad("RightPad", 2, 2) EXCEPT !.justify_y = "RIGHT",
                                                 !.justify_x = "RIGHT"] >>
      [] kind = "fill" ->
           << [PadClass EXCEPT !.cls = "FillPad", !.stretch_clipheight = TRUE,
                               !.stretch_clipwidth = TRUE] >>
      [] kind = "fillmin" ->
           << [PadClass EXCEPT !.cls = "FillMinPad", !.stretch_clipheight = TRUE,
                               !.stretch_clipwidth = TRUE,
                               !.min_height = 3, !.min_width = 3] >>
      [] kind = "bfill" ->
           << [FrameClass EXCEPT !.cls = "BorderedFrame", !.bordered = TRUE,
                                 !.spawns = <<2>>],
              SizedPad("FixedPad", 1, 1) >>
      [] kind = "fit" ->
           << [FrameClass EXCEPT !.cls = "FitFrame", !.sizing_y = "FIT",
                                 !.sizing_x = "FIT", !.spawns = <<2>>],
              SizedPad("FixedPad", 2, 2) >>
      [] kind = "fiteven" ->
           << [FrameClass EXCEPT !.cls = "FitEvenFrame", !.sizing_y = "FIT",
                                 !.alignment = "EVEN", !.spawns = <<2, 3>>],
              SizedPad("FixedPad", 2, 2),
              [PadClass EXCEPT !.cls = "FillPad", !.stretch_clipheight = TRUE,
                               !.stretch_clipwidth = TRUE] >>

Shift(tpl, off) ==
    [j \in 1..Len(tpl) |->
       [tpl[j] EXCEPT !.spawns = [x \in DOMAIN @ |-> @[x] + off]]]

\* The declaration of a root that spawns children of the given kinds.
RECURSIVE Plant(_, _, _)
Plant(acc, kinds, k) ==
    IF k > Len(kinds) THEN acc
    ELSE Plant([acc EXCEPT ![LRoot].spawns = Append(@, Len(acc) + 1)]
                 \o Shift(Template(kinds[k]), Len(acc)),
               kinds, k + 1)

RootClasses ==
    {[FrameClass EXCEPT !.cls = "RootFrame", !.main_axis = a,
                        !.alignment = al[1], !.alignment_justify = al[2]] :
       a \in {"Y", "X"},
       al \in {<<"SNUG", "LEFT">>, <<"SNUG", "CENTER">>, <<"SNUG", "RIGHT">>,
               <<"EVEN", "LEFT">>}}

\* What the spawner of the root spawns, in order.
KindLists ==
    { <<"fill">>, <<"fill", "fill">>, <<"fill", "fill", "fill">>,
      <<"fixed", "fill">>, <<"fillmin", "fill">>,
      <<"bfill", "bfill">>, <<"fixed", "bfill", "bfill">>,
      <<"fixed", "fit", "fill">>, <<"fiteven", "fill">>, <<"fill", "fiteven">>,
      <<"centred", "right">>, <<"fixed">>, <<"fixed", "fixed">> }

Declarations ==
    {TwoEightDecl} \cup {Plant(<<r>>, ks, 1) : r \in RootClasses, ks \in KindLists}

\* What getmaxyx() returns: small terminals and, for the tree of the
\* program, an ordinary one; for the other trees one of 50 columns.
TermSizes(n) ==
    ((0..MaxTerm) \X (0..MaxTerm))
    \cup (IF n[LRoot].cls = "TwoEight" THEN {<<24, 80>>} ELSE {<<2, 50>>})

\* RootFrame.resize_term: the resize pass and, unless it raised, refresh.
Pass(n, sz, passes) ==
    LET L == resize_term(n, sz[1], sz[2])
    IN  [n |-> L.n,
         lop |-> [kind |-> "resize_term", termheight |-> sz[1],
                  termwidth |-> sz[2], exc |-> L.exc, passes |-> passes,
                  drawn |-> IF L.exc = "none" THEN refresh(L.n, LRoot) ELSE {}]]

\* RootFrame.__init__: the spawners, then the first resize_term.
InitLayout ==
    /\ \E decl \in Declarations : \E sz \in TermSizes(decl) :
         LET P == Pass(RootFrame_init(decl), sz, 1)
         IN  tree = P.n /\ lop = P.lop
    /\ inp = <<>> /\ ev = <<>> /\ op = <<>> /\ newest = <<>>
    /\ IdleApp
    /\ vpad = <<>> /\ vop = <<>>

\* KEY_RESIZE: resize_term on the terminal's new size.
ResizeTerm(sz) ==
    /\ lop.exc = "none"
    /\ lop.passes < MaxPasses
    /\ LET P == Pass(tree, sz, lop.passes + 1)
       IN  tree' = P.n /\ lop' = P.lop
    /\ UNCHANGED <<inputVars, appVars, scrollVars>>

NextLayout == \E sz \in TermSizes(tree) : ResizeTerm(sz)

SpecLayout == InitLayout /\ [][NextLayout]_vars

(***************************************************************************)
(* SpecKeys: the program after RootFrame.__init__ on a terminal of any of  *)
(* the sizes above, and movement keys of the timetable.  tree holds the    *)
(* layout with the curses pads, vpad the TimetablePad's cursor and scroll  *)
(* state; lop the last pass or key and the exception that ended it.        *)
(***************************************************************************)
KeysOfSpecKeys == {KEY_w, KEY_S}

\* The object of a class that the program makes once.
NodeOf(n, cls) == CHOOSE i \in DOMAIN n : n[i].cls = cls

\* self.pad.addch(...) and the like raise AttributeError on None.
PadMissing(n, i) == IsNone(n[i].pad)

\* WeekTab.timetable_select on the laid-out tree.  The dummy week plans an
\* activity in every timeslot, so draw_activities_markers writes to the
\* ActivityTablePad's curses pad; select moves and scrolls, then
\* draw_selected writes to the TimetablePad's.  refresh draws a pad only
\* if the node is refreshable.
timetable_select_drawn(n, p, d_y, d_x, c) ==
    LET act == NodeOf(n, "ActivityTablePad")
        tt == NodeOf(n, "TimetablePad")
        cy == Wrap(p.cursor_y + d_y, p.height)
        cx == Wrap(p.cursor_x + d_x, NrDays)
    IN  IF PadMissing(n, act)
        THEN [p |-> p, exc |-> "AttributeError", drawn |-> {}]
        ELSE IF PadMissing(n, tt)
        THEN [p |-> scroll([p EXCEPT !.cursor_y = cy, !.cursor_x = cx], cy),
              exc |-> "AttributeError", drawn |-> {}]
        ELSE [p |-> timetable_select(p, d_y, d_x, c), exc |-> "none",
              drawn |-> {i \in {tt, act} : n[i].refreshable}]

\* TwoEight.__init__: the tree is laid out; VertScrollPad.resize has
\* scrolled the TimetablePad to row 0 in the clip it was given.
InitKeys ==
    /\ \E sz \in TermSizes(TwoEightDecl) :
         LET P == Pass(RootFrame_init(TwoEightDecl), sz, 1)
         IN  tree = P.n /\ lop = P.lop
    /\ LET t == tree[NodeOf(tree, "TimetablePad")]
       IN  vpad = VertScrollPad_resize(TimetablePad_init(t.height),
                                       t.clipheight)
    /\ vop = [kind |-> "resize", key |-> 0, old |-> <<0, 0>>]
    /\ inp = <<>> /\ ev = <<>> /\ op = <<>> /\ newest = <<>>
    /\ IdleApp

\* A movement key read by the main loop; an exception ends the program.
KeyMove(k) ==
    /\ lop.exc = "none"
    /\ LET d == TimetableDelta(BoundFn(TabDecls, k))
           r == timetable_select_drawn(tree, vpad, d[1], d[2], k)
       IN  /\ vpad' = r.p
           /\ lop' = [lop EXCEPT !.kind = "key", !.exc = r.exc,
                                 !.drawn = r.drawn]
    /\ vop' = [kind |-> "move", key |-> k,
               old |-> <<vpad.cursor_y, vpad.cursor_x>>]
    /\ UNCHANGED <<inputVars, appVars, tree>>

NextKeys == \E k \in KeysOfSpecKeys : KeyMove(k)

SpecKeys == InitKeys /\ [][NextKeys]_vars

(***************************************************************************)
(* Properties of the layout.  They speak about the tree after a resize     *)
(* pass that ran to its end: every Frame of the tree was then resized.     *)
(***************************************************************************)
PassDone == lop.exc = "none"

Frames == {i \in DOMAIN tree : IsFrame(tree[i])}

\* The main length of a frame without its border.
Interior(f) == main_length(f, f.main_axis) - (IF f.bordered THEN 2 ELSE 0)

\* The clip of a child in its frame along an axis, and its length.
BandStart(c, axis) == IF axis = "Y" THEN c.uly ELSE c.ulx
BandEnd(c, axis) == IF axis = "Y" THEN c.bry ELSE c.brx
BandLength(c, axis) == BandEnd(c, axis) - BandStart(c, axis) + 1
Band(c, axis) == BandStart(c, axis)..BandEnd(c, axis)

IsBorderedFrame(p) == IsFrame(p) /\ p.bordered

CeilDiv(a, b) == 0 - FloorDiv(0 - a, b)

\* An EVEN frame with children, none of them a bordered Frame, and an
\* interior that is not negative.
EvenPlain(f) ==
    /\ f.alignment = "EVEN"
    /\ Len(f.pads) >= 1
    /\ Interior(f) >= 0
    /\ \A k \in 1..Len(f.pads) : ~IsBorderedFrame(tree[f.pads[k]])

\* The bands of the children of f follow one another from the first cell
\* of the interior to its last, without a gap and without an overlap.
Contiguous(f) ==
    LET N == Len(f.pads)
        b == IF f.bordered THEN 1 ELSE 0
        child(k) == tree[f.pads[k]]
    IN  /\ BandStart(child(1), f.main_axis) = b
        /\ BandEnd(child(N), f.main_axis) = Interior(f) - 1 + b
        /\ \A k \in 1..(N - 1) :
             BandStart(child(k + 1), f.main_axis) = BandEnd(child(k), f.main_axis) + 1

\* C12: after a resize pass, in every EVEN frame with N >= 1 children, none
\* a bordered Frame, and interior L >= 0, the main-axis band of each child
\* has length floor(L/N) or ceil(L/N), and the bands are contiguous and
\* cover the interior exactly.
C12_EvenBands ==
    PassDone =>
      \A i \in Frames :
        LET f == tree[i]
            N == Len(f.pads)
            L == Interior(f)
        IN  EvenPlain(f) =>
              /\ \A k \in 1..N :
                   BandLength(tree[f.pads[k]], f.main_axis)
                     \in {FloorDiv(L, N), CeilDiv(L, N)}
              /\ Contiguous(f)

\* A FILL-sized unbordered EVEN frame whose interior is a multiple of the
\* number of its children.
FillEven(f) ==
    /\ f.sizing_y = "FILL" /\ f.sizing_x = "FILL"
    /\ ~f.bordered
    /\ f.alignment = "EVEN"
    /\ Len(f.pads) >= 1
    /\ Interior(f) % Len(f.pads) = 0

OffAxis(axis) == IF axis = "Y" THEN "X" ELSE "Y"

\* The child stretches along the axis: a Fill child.
Stretches(c, axis) ==
    IF axis = "Y" THEN c.stretch_clipheight ELSE c.stretch_clipwidth

MinLength(c, axis) == IF axis = "Y" THEN c.min_height ELSE c.min_width
MaxLength(c, axis) == IF axis = "Y" THEN c.max_height ELSE c.max_width

\* The child was given room on both axes.
Offered2(c) == BandLength(c, "Y") > 0 /\ BandLength(c, "X") > 0

\* C13 as stated: after a resize pass, every Fill child of a FILL-sized
\* unbordered EVEN frame with interior L, a multiple of the child count N,
\* has the main-axis extent L / N.
C13_Original ==
    PassDone =>
      \A i \in Frames :
        LET f == tree[i]
        IN  FillEven(f) =>
              \A k \in 1..Len(f.pads) :
                LET c == tree[f.pads[k]]
                IN  Stretches(c, f.main_axis) =>
                      main_length(c, f.main_axis) = Interior(f) \div Len(f.pads)

\* C13 amended: in such a frame every Fill child that was given room on
\* both axes has the main-axis extent L / N, or one more if it is a
\* bordered Frame that follows a bordered Frame, raised to its min and cut
\* to its max extent where the class sets them.
C13_Amended ==
    PassDone =>
      \A i \in Frames :
        LET f == tree[i]
        IN  FillEven(f) =>
              \A k \in 1..Len(f.pads) :
                LET c == tree[f.pads[k]]
                    shared == IF /\ k > 1
                                 /\ IsBorderedFrame(c)
                                 /\ IsBorderedFrame(tree[f.pads[k - 1]])
                              THEN 1 ELSE 0
                    share == Interior(f) \div Len(f.pads)
                    min == MinLength(c, f.main_axis)
                    max == MaxLength(c, f.main_axis)
                    low == IF share + shared >= min THEN share + shared ELSE min
                IN  (Stretches(c, f.main_axis) /\ Offered2(c)) =>
                      main_length(c, f.main_axis) =
                        IF max > 0 /\ max < low THEN max ELSE low

\* A frame 50 wide has given each of its two Fill children 25.
C13_Witness ==
    /\ PassDone
    /\ \E i \in Frames :
         LET f == tree[i]
         IN  /\ FillEven(f) /\ f.main_axis = "X"
             /\ Interior(f) = 50 /\ Len(f.pads) = 2
             /\ \A k \in 1..2 :
                  /\ Stretches(tree[f.pads[k]], "X")
                  /\ Offered2(tree[f.pads[k]])
                  /\ tree[f.pads[k]].width = 25

Sizing(f, axis) == IF axis = "Y" THEN f.sizing_y ELSE f.sizing_x

\* What fit_resize would give the frame along the axis from the extents its
\* children have now.
FitLength(f, axis) ==
    (IF axis = f.main_axis
     THEN SumMain(tree, f.pads, Len(f.pads), axis)
     ELSE MaxOff(tree, f.pads, Len(f.pads), axis))
    + (IF f.bordered THEN 2 ELSE 0)

\* C14: after a resize pass, the extent of a frame along an axis on which
\* its sizing is FIT is the sum (main axis) or the maximum (off axis) of
\* the extents its children have after that pass, plus 2 if it is bordered.
C14_FitExtent ==
    PassDone =>
      \A i \in Frames : \A axis \in {"Y", "X"} :
        Sizing(tree[i], axis) = "FIT" =>
          main_length(tree[i], axis) = FitLength(tree[i], axis)

\* The absolute clip of p is a rectangle inside the absolute clip of q.
Within(p, q) ==
    /\ q.absuly <= p.absuly /\ p.absuly <= p.absbry /\ p.absbry <= q.absbry
    /\ q.absulx <= p.absulx /\ p.absulx <= p.absbrx /\ p.absbrx <= q.absbrx

\* C15: after every resize pass, the absolute clip rectangle of every
\* drawable node but the root lies within the absolute clip rectangle of
\* its parent, with absuly <= absbry and absulx <= absbrx.
C15_ClipWithinParent ==
    PassDone =>
      \A i \in DOMAIN tree :
        (tree[i].parent # 0 /\ tree[i].refreshable) =>
          Within(tree[i], tree[tree[i].parent])

\* A drawable pad in a frame that is wider than the clip its parent gave
\* it: the band of the pad reaches beyond the absolute clip of the frame.
C15_Witness ==
    /\ PassDone
    /\ \E i \in DOMAIN tree :
         LET p == tree[i]
         IN  /\ p.parent # 0 /\ p.refreshable
             /\ tree[p.parent].parent # 0
             /\ tree[p.parent].width > tree[p.parent].clipwidth
             /\ p.ulx + p.width - 1 + tree[p.parent].absulx > tree[p.parent].absbrx
             /\ Within(p, tree[p.parent])

\* C16 as stated: after a resize pass the main-axis bands of two distinct
\* children of a frame are disjoint.
C16_Original ==
    PassDone =>
      \A i \in Frames :
        LET f == tree[i]
        IN  \A j, k \in 1..Len(f.pads) :
              j # k => Band(tree[f.pads[j]], f.main_axis)
                         \cap Band(tree[f.pads[k]], f.main_axis) = {}

\* Child k of f is a bordered Frame that directly follows a bordered Frame.
SharesBorder(f, k) ==
    /\ k > 1
    /\ IsBorderedFrame(tree[f.pads[k]])
    /\ IsBorderedFrame(tree[f.pads[k - 1]])

\* C16 amended: after a resize pass the main-axis bands of two distinct
\* children of a frame are disjoint, except that a bordered Frame which
\* directly follows a bordered Frame starts one cell early: its band begins
\* on the last cell of its predecessor's band, and that one cell is all it
\* shares with any earlier band.
C16_Amended ==
    PassDone =>
      \A i \in Frames :
        LET f == tree[i]
            band(k) == Band(tree[f.pads[k]], f.main_axis)
        IN  /\ \A j, k \in 1..Len(f.pads) :
                 j < k =>
                   /\ band(j) \cap band(k) \subseteq
                        {BandStart(tree[f.pads[k]], f.main_axis)}
                   /\ band(j) \cap band(k) # {} => SharesBorder(f, k)
            /\ \A k \in 1..Len(f.pads) :
                 (SharesBorder(f, k) /\ band(k) # {} /\ band(k - 1) # {}) =>
                   BandStart(tree[f.pads[k]], f.main_axis)
                     = BandEnd(tree[f.pads[k - 1]], f.main_axis)

\* Two drawable bordered Frames, one directly after the other, share a
\* cell: the later starts where the earlier ends.
C16_Witness ==
    /\ PassDone
    /\ \E i \in Frames :
         LET f == tree[i]
         IN  \E k \in 1..Len(f.pads) :
               /\ SharesBorder(f, k)
               /\ tree[f.pads[k]].refreshable
               /\ tree[f.pads[k - 1]].refreshable
               /\ BandStart(tree[f.pads[k]], f.main_axis)
                    = BandEnd(tree[f.pads[k - 1]], f.main_axis)

\* The node was given no room, or has no extent, along some axis.
NoArea(c) ==
    \/ BandLength(c, "Y") <= 0 \/ BandLength(c, "X") <= 0
    \/ c.height <= 0 \/ c.width <= 0

\* Pad.resize ran for the node after its band was assigned.
Resized(c) ==
    c.clipheight = BandLength(c, "Y") /\ c.clipwidth = BandLength(c, "X")

\* refresh draws the curses pad of a Pad and of a bordered Frame.
HasPad(c) == ~IsFrame(c) \/ c.bordered

\* C20: a resize pass does not end in an exception; a child that was given
\* no room or has no extent on some axis is not drawable after it and is
\* skipped by refresh; every child was assigned its band and resized; and
\* a child with room and extent under a drawable parent is drawable.
C20_DegenerateChildIsLocal ==
    /\ lop.exc = "none"
    /\ \A i \in DOMAIN tree :
         LET c == tree[i]
         IN  c.parent # 0 =>
               /\ NoArea(c) => (~c.refreshable /\ i \notin lop.drawn)
               /\ Resized(c)
               /\ (~NoArea(c) /\ tree[c.parent].refreshable) =>
                    (c.refreshable /\ (HasPad(c) => i \in lop.drawn))

\* C23: with a controller installed and a wildcard handler bound,
\* process(k) for a key that is not bound invokes the wildcard handler,
\* once, and offers k to no chain entry; process(k) for a bound key invokes
\* the handler bound to k and not the wildcard handler.
C23_WildcardBeforeChain ==
    [][\A k \in Keys :
          (/\ op'.kind = "process" /\ op'.keys = <<k>>
           /\ inp["I1"].controller # "None"
           /\ STAR \in DOMAIN Val(inp["I1"].controls))
          => LET ctl == Val(inp["I1"].controls)
                 h == IF k \in DOMAIN ctl THEN ctl[k] ELSE ctl[STAR]
             IN  ev' = <<Event("call", "I1", inp["I1"].controller, h, k)>>]_vars

\* An unbound key went to the wildcard handler while the chain held an
\* entry with a router, and another key was bound to another handler.
C23_Witness ==
    /\ op.kind = "process"
    /\ STAR \in DOMAIN Val(inp["I1"].controls)
    /\ op.keys[1] \notin DOMAIN Val(inp["I1"].controls)
    /\ ev = <<Event("call", "I1", inp["I1"].controller,
                    Val(inp["I1"].controls)[STAR], op.keys[1])>>
    /\ "NA" \in Range(Val(inp["I1"].fallback))
    /\ \E k \in Keys : /\ k \in DOMAIN Val(inp["I1"].controls)
                       /\ Val(inp["I1"].controls)[k] # Val(inp["I1"].controls)[STAR]

\* C24 as stated: after a resize pass, a bordered Frame that directly
\* follows a bordered Frame starts on the last cell of its predecessor's
\* band, and every other child but the first starts one cell after the end
\* of its predecessor's band.
C24_Original ==
    PassDone =>
      \A i \in Frames :
        LET f == tree[i]
            start(k) == BandStart(tree[f.pads[k]], f.main_axis)
            end(k) == BandEnd(tree[f.pads[k]], f.main_axis)
        IN  \A k \in 2..Len(f.pads) :
              start(k) = IF SharesBorder(f, k) THEN end(k - 1) ELSE end(k - 1) + 1

\* C24 amended: after a resize pass, a bordered Frame that directly follows
\* a bordered Frame starts on the last cell of its predecessor's band
\* provided both bands are non-empty; when clamping to the interior left
\* one of the two empty, it starts at most one cell after it; every other
\* child but the first starts one cell after the end of its predecessor's
\* band.
C24_SharedBorderCell ==
    PassDone =>
      \A i \in Frames :
        LET f == tree[i]
            start(k) == BandStart(tree[f.pads[k]], f.main_axis)
            end(k) == BandEnd(tree[f.pads[k]], f.main_axis)
            band(k) == Band(tree[f.pads[k]], f.main_axis)
        IN  \A k \in 2..Len(f.pads) :
              IF SharesBorder(f, k)
              THEN /\ (band(k) # {} /\ band(k - 1) # {}) => start(k) = end(k - 1)
                   /\ start(k) \in {end(k - 1), end(k - 1) + 1}
              ELSE start(k) = end(k - 1) + 1

\* A frame in which a plain child is followed by two bordered Frames, all
\* three with a non-empty band: the first bordered Frame starts after the
\* plain child, the second on the last cell of the first.
C24_Witness ==
    /\ PassDone
    /\ \E i \in Frames :
         LET f == tree[i]
             start(k) == BandStart(tree[f.pads[k]], f.main_axis)
             end(k) == BandEnd(tree[f.pads[k]], f.main_axis)
         IN  \E k \in 3..Len(f.pads) :
               /\ SharesBorder(f, k) /\ ~SharesBorder(f, k - 1)
               /\ \A j \in {k - 2, k - 1, k} : start(j) <= end(j)
               /\ start(k - 1) = end(k - 2) + 1
               /\ start(k) = end(k - 1)

\* Where refresh draws a child along an axis, in screen cells.
DrawnStart(c, axis) == IF axis = "Y" THEN c.absuly ELSE c.absulx
DrawnEnd(c, axis) == IF axis = "Y" THEN c.absbry ELSE c.absbrx

\* A drawable SNUG frame whose children are drawable and keep their extent
\* along its main axis, with an interior that holds them all.
SnugFits(f) ==
    /\ f.alignment = "SNUG"
    /\ Len(f.pads) >= 1
    /\ f.refreshable
    /\ \A k \in 1..Len(f.pads) :
         /\ tree[f.pads[k]].refreshable
         /\ ~Stretches(tree[f.pads[k]], f.main_axis)
    /\ Interior(f) >= SumMain(tree, f.pads, Len(f.pads), f.main_axis)

\* C22: after a resize pass, in a SNUG frame whose interior L is at least
\* the sum S of the main-axis extents of its children, every child is drawn
\* with its own extent, the children follow one another in spawn order
\* without a gap, and the L - S cells that are left lie after the last
\* child for justify LEFT, before the first for RIGHT, and on both sides of
\* the run for CENTER.
C22_SnugRemainder ==
    PassDone =>
      \A i \in Frames :
        LET f == tree[i]
            N == Len(f.pads)
            child(k) == tree[f.pads[k]]
            a == f.main_axis
            R == Interior(f) - SumMain(tree, f.pads, N, a)
            first == DrawnStart(f, a) + (IF f.bordered THEN 1 ELSE 0)
            lead == DrawnStart(child(1), a) - first
        IN  SnugFits(f) =>
              /\ \A k \in 1..N :
                   DrawnEnd(child(k), a) - DrawnStart(child(k), a) + 1
                     = main_length(child(k), a)
              /\ \A k \in 2..N :
                   DrawnStart(child(k), a) = DrawnEnd(child(k - 1), a) + 1
              /\ f.alignment_justify = "LEFT" => lead = 0
              /\ f.alignment_justify = "RIGHT" => lead = R
              /\ f.alignment_justify = "CENTER" =>
                   lead \in {FloorDiv(R, 2), CeilDiv(R, 2)}

\* C26: scroll(select) on a pad with clipheight >= 1, 0 <= select < height
\* and scrollpos in its valid range leaves the focus row inside the window:
\* scrollpos <= select <= scrollpos + clipheight - 1.
C26_FocusRowVisible ==
    [][(/\ vop'.kind = "scroll"
        /\ vpad.clipheight >= 1
        /\ 0 <= vpad'.scroll_variable /\ vpad'.scroll_variable < vpad.height
        /\ ValidScrollpos(vpad))
       => /\ vpad'.scrollpos <= vpad'.scroll_variable
          /\ vpad'.scroll_variable <= vpad'.scrollpos + vpad'.clipheight - 1]_vars

\* A scroll call moved the window of a pad that is higher than its clip
\* down to a focus row that was below the window.
C26_Witness ==
    /\ vop.kind = "scroll"
    /\ vpad.clipheight >= 2
    /\ vpad.height > vpad.clipheight
    /\ vpad.scroll_variable > vop.old + vpad.clipheight - 1
    /\ vpad.scrollpos > vop.old
    /\ vpad.scrollpos <= vpad.scroll_variable
    /\ vpad.scroll_variable <= vpad.scrollpos + vpad.clipheight - 1

\* C29: after a resize pass, also one that an exception ended, a drawable
\* node other than the root has a drawable parent, and a drawable node that
\* owns a curses pad (a Pad or a bordered Frame) has one of exactly
\* height + 1 rows and width columns.
C29_DrawableHasBuffer ==
    \A i \in DOMAIN tree :
      LET c == tree[i]
      IN  c.refreshable =>
            /\ c.parent # 0 => tree[c.parent].refreshable
            /\ HasPad(c) => c.pad = <<c.height + 1, c.width>>

\* After a second pass on a terminal of another size a drawable bordered
\* Frame and a drawable Pad below it have curses pads of their new sizes.
C29_Witness ==
    /\ PassDone
    /\ lop.passes = 2
    /\ \E i, j \in DOMAIN tree :
         /\ IsBorderedFrame(tree[i]) /\ tree[i].refreshable
         /\ tree[i].pad = <<lop.termheight + 1, lop.termwidth>>
         /\ ~IsFrame(tree[j]) /\ tree[j].parent = i /\ tree[j].refreshable
         /\ tree[j].pad = <<tree[j].height + 1, tree[j].width>>

\* C25: a key processed while a capture loop runs leaves that loop running
\* unless the handler it invoked is the confirm handler registered for that
\* capture, whose InputBreak makes start_loop return.
C25_OnlyConfirmEnds ==
    [][(Captured /\ run.status = "running" /\ op'.kind = "key")
        => LET d == Len(stack)
               goes_on == /\ run'.status = "running"
                          /\ Len(stack') >= d
                          /\ stack'[d].pc = "loop"
           IN  \/ goes_on
               \/ /\ op'.h.fn \in {"confirm_name", "confirm_colors"}
                  /\ op'.h.frame = d
                  /\ run'.status = "running"
                  /\ stack'[d].pc = "returned"]_vars

\* The colour prompt of the innermost activation is in its loop.
InColorPrompt ==
    /\ stack # <<>>
    /\ stack[Len(stack)].phase = "colors"
    /\ stack[Len(stack)].pc = "loop"

\* C30: while the colour prompt runs color_index and digit_index stay in
\* 0..2; a confirm key ends the prompt exactly when it is the third, the
\* one pressed at color_index 2; and when edit goes on after the prompt was
\* confirmed, the r, g, b stored in the activity are the three numbers the
\* prompt showed at that moment, which are the values typed.
C30_TypedColoursStored ==
    [][LET d == Len(stack)
           f == stack[d]
       IN  /\ InColorPrompt' =>
                 apad'.color_index \in 0..2 /\ apad'.digit_index \in 0..2
           /\ (InColorPrompt /\ op'.kind = "key" /\ op'.h.fn = "confirm_colors")
                 => (stack'[d].pc = "returned" <=> apad.color_index = 2)
           /\ (/\ op'.kind = "continue" /\ stack # <<>>
               /\ f.phase = "colors" /\ f.pc = "returned"
               /\ run'.status = "running")
                 => /\ week'.objs[f.activity].r = Int3(f.colors_str[1])
                    /\ week'.objs[f.activity].g = Int3(f.colors_str[2])
                    /\ week'.objs[f.activity].b = Int3(f.colors_str[3])]_vars

\* The cells of the rows and columns between two cells, both included.
Spanned(y0, x0, y1, x1) ==
    {<<y, x>> : y \in Min(y0, y1)..Max(y0, y1), x \in Min(x0, x1)..Max(x0, x1)}

\* C27: a movement key moves the cursor by one cell in its direction and
\* wraps it around at the edges, so that 0 <= cursor_y < height and
\* 0 <= cursor_x < 7; the cursor cell is in the selection; after a
\* lower-case key the selection is the cursor cell alone and the held cell
\* is the cursor cell; after an upper-case key the held cell is unchanged
\* and the selection is the full rectangle spanned by it and the cursor.
C27_CursorAndSelection ==
    [][vop'.kind = "move" =>
         LET k == vop'.key
             up == k \in {KEY_W, KEY_S, KEY_A, KEY_D}
             dy == IF k \in {KEY_w, KEY_W} THEN -1
                   ELSE IF k \in {KEY_s, KEY_S} THEN 1 ELSE 0
             dx == IF k \in {KEY_a, KEY_A} THEN -1
                   ELSE IF k \in {KEY_d, KEY_D} THEN 1 ELSE 0
             cy == vpad'.cursor_y
             cx == vpad'.cursor_x
         IN  /\ cy \in 0..(vpad.height - 1) /\ cx \in 0..6
             /\ cy = IF vpad.cursor_y + dy < 0 THEN vpad.height - 1
                     ELSE IF vpad.cursor_y + dy = vpad.height THEN 0
                     ELSE vpad.cursor_y + dy
             /\ cx = IF vpad.cursor_x + dx < 0 THEN 6
                     ELSE IF vpad.cursor_x + dx = 7 THEN 0
                     ELSE vpad.cursor_x + dx
             /\ <<cy, cx>> \in Range(vpad'.selected)
             /\ ~up => /\ vpad'.selected = << <<cy, cx>> >>
                       /\ vpad'.hold_cursor_y = cy /\ vpad'.hold_cursor_x = cx
             /\ up => /\ vpad'.hold_cursor_y = vpad.hold_cursor_y
                      /\ vpad'.hold_cursor_x = vpad.hold_cursor_x
                      /\ Range(vpad'.selected)
                           = Spanned(vpad.hold_cursor_y, vpad.hold_cursor_x, cy, cx)
                      /\ Len(vpad'.selected) = Cardinality(Range(vpad'.selected))]_vars

\* An upper-case key has wrapped the cursor from the top row to the bottom
\* row, and the selection is a rectangle of at least six cells between the
\* held cell and the cursor.
C27_Witness ==
    /\ vop.kind = "move"
    /\ vop.key = KEY_W
    /\ vop.old[1] = 0
    /\ vpad.height = 3
    /\ vpad.cursor_y = 2
    /\ vpad.hold_cursor_y = 0
    /\ vpad.hold_cursor_x # vpad.cursor_x
    /\ Len(vpad.selected) >= 6

\* No prompt is running: keys go to the bindings of the root and of WeekTab.
Normal == stack = <<>> /\ run.status = "running"

\* C28: after an assign, delete or edit handler has run in Normal state,
\* the planned and the verified activity of every timeslot is None or an
\* activity of the week's list; a delete on an activity leaves no timeslot
\* that refers to it, takes it from the list and changes no other
\* reference; a delete on the "+ new" row changes neither the week nor the
\* activity table.
C28_TimeslotsReferToList ==
    [][/\ Normal' => Referenced(week'.timetable) \subseteq Range(week'.acts)
       /\ (/\ Normal /\ run'.status = "running"
           /\ op'.kind = "key" /\ op'.h.fn = "activitytable_delete")
            => IF apad.cursor = Len(apad.names)
               THEN week' = week /\ apad' = apad
               ELSE LET a == week.acts[apad.cursor + 1]
                    IN  /\ a \notin Referenced(week'.timetable)
                        /\ a \notin Range(week'.acts)
                        /\ \A y \in DOMAIN week.timetable, x \in 1..NrDays :
                             /\ week.timetable[y][x].plan # Some(a)
                                  => week'.timetable[y][x].plan = week.timetable[y][x].plan
                             /\ week.timetable[y][x].verify # Some(a)
                                  => week'.timetable[y][x].verify
                                       = week.timetable[y][x].verify]_vars

\* An activity made with edit and assigned to the selected timeslots was
\* deleted: those timeslots have no planned activity, and the others still
\* refer to an activity of the list.
C28_Witness ==
    /\ Normal
    /\ op.kind = "key" /\ op.h.fn = "activitytable_delete"
    /\ Len(week.acts) >= 1
    /\ run.edits >= 1
    /\ IsNone(week.timetable[1][1].plan)
    /\ IsNone(week.timetable[1][2].plan)
    /\ ~IsNone(week.timetable[1][1].verify)
    /\ ~IsNone(week.timetable[1][NrDays].plan)
    /\ Referenced(week.timetable) \subseteq Range(week.acts)

(***************************************************************************)
(* C21: a degenerate layout is recoverable.  When the first layout left    *)
(* some node without a curses pad, a bound key processed afterwards        *)
(* completes without an exception: no handler writes to a node that has    *)
(* no buffer.                                                              *)
(***************************************************************************)
C21_KeysSurviveDegenerateLayout ==
    (lop.kind = "key" /\ \E i \in DOMAIN tree : IsNone(tree[i].pad) /\ tree[i].init_pad)
        => lop.exc = "none"

=============================================================================
